---- MODULE Spec2Model ----
(***************************************************************************)
(* Model of the chunked parallel compilation engine of rules-compiler-rust *)
(* (src/chunking.rs): compile_chunks_async runs the planned chunks in      *)
(* sequential batches of max_parallel chunk tasks, joins every batch with  *)
(* join_all, collects the per-chunk results in task order and merges the   *)
(* outputs of the successful chunks with merge_chunks.                     *)
(*                                                                         *)
(* Positions are 1-based here (chunks[i] of the code is position i+1);     *)
(* ChunkMetadata.index keeps the code's 0-based value.  Option values are  *)
(* sequences: <<>> is None and <<v>> is Some(v).  A line of text is a      *)
(* sequence of one-character strings, so trimming and line splitting are   *)
(* computed, not assumed.                                                  *)
(*                                                                         *)
(* The event system of src/events.rs is modelled beside it: the            *)
(* EventDispatcher (one raise_* function per stage, handlers called in     *)
(* turn), the findings of a ValidationEventArgs, and the FileLockService   *)
(* with its FileLockHandle values over the flock locks of the operating    *)
(* system.  Each part has its own specification; a specification leaves    *)
(* the variables of the other parts at their idle values.                  *)
(*                                                                         *)
(* The planning and merge functions of chunking.rs and estimated_speedup   *)
(* have specifications that call them on bounded inputs.  The last part    *)
(* models adguard-validation-core: the hash database with                  *)
(* verify_and_update, Validator::validate_local_file and the steps of      *)
(* compile_with_validation.                                                *)
(***************************************************************************)
EXTENDS Integers, Sequences, FiniteSets, TLC

\* Largest number of chunks handed to compile_chunks_async.
MaxChunks == 3
\* Largest value of options.max_parallel.
MaxWorkers == 2

VARIABLES
    chunks,         \* the Vec<(CompilerConfig, ChunkMetadata)> argument (metadata part)
    max_parallel,   \* options.max_parallel
    path_has,       \* executables which::which can resolve in this environment
    pc,             \* position of compile_chunks_async
    batch_start,    \* loop variable of the batch loop
    task,           \* per chunk: the compile_single_chunk_async future and its temp files
    result,         \* the ChunkedCompilationResult being built
    chunk_results,  \* Vec<Vec<String>>: outputs of the successful chunks
    merge_input,    \* history: for each entry of chunk_results, the chunk index it came from
    finished,       \* history: chunk positions in the order their tasks completed
    started,        \* history: how many times each chunk's task was started
    raised,         \* history: events raised on an EventDispatcher during the run
    ret,            \* what compile_chunks_async returned: <<>> while running
    \* EventDispatcher
    handlers,       \* EventDispatcher.handlers: [id, does], id the registration ordinal
    d_pc,           \* "idle", "running" (inside a raise_* call) or "returned"
    d_stage,        \* the stage of the current raise_* call
    d_args,         \* the event args of the call: flag is the stage's control field
    d_idx,          \* position of the for loop over handlers
    d_in,           \* id of the handler whose callback is executing, 0 when none is
    d_invoked,      \* history: ids of the handlers called in this dispatch, in call order
    d_flags,        \* history: the control flag as each called handler left it
    \* ValidationEventArgs
    vargs,          \* a ValidationEventArgs: findings (severities), abort, abort_reason
    \* FileLockService
    platform,       \* the build: "unix" (flock) or "windows" (no locking)
    fds,            \* operating system: open file descriptions, fd -> [path, lock]
    lock_handles,   \* the FileLockHandle values that exist, by lock id
    active_locks,   \* FileLockService.active_locks: lock id -> path
    next_lock_id,   \* stands for Uuid::new_v4(): a fresh id per call
    last_acquire,   \* history: the last acquire call and what it returned
    \* planning (should_enable_chunking, split_into_chunks)
    job,            \* config.sources of the CompilerConfig being planned
    options,        \* the ChunkingOptions value its owner has built
    profile,        \* the build: "debug" (overflow checks on) or "release" (off)
    enable_ret,     \* <<>> or <<opt, b>>: the last should_enable_chunking(config, opt) = b
    plan_ret,       \* <<>>, <<"Ok", chunks>> or <<"Panic", why>>: split_into_chunks(config, &options)
    \* merge_chunks
    m_in,           \* the chunk_results argument of the last merge_chunks call
    m_out,          \* <<>> or <<(deduplicated, duplicates_removed)>>: what it returned
    \* ChunkedCompilationResult::estimated_speedup
    sp_result,      \* a ChunkedCompilationResult: chunks (their elapsed_ms), total_elapsed_ms
    sp_ret,         \* <<>> or <<r>>: the f64 estimated_speedup returned, as a ratio [num, den]
    \* adguard-validation-core: hash database, Validator, compile_with_validation
    files,          \* file system: input file -> its content, "missing" when there is none
    verify_mode,    \* config.hash_verification.mode
    hash_db,        \* the HashDatabase a caller owns (Validator.hash_db): path -> HashEntry
    db_file,        \* the hash database file on disk, as last saved
    v_ret,          \* <<>> or <<r>>: the last verify_and_update / validate_local_file call
    c_pc,           \* position of compile_with_validation
    c_input,        \* its CompilationInput: local_files, remote_urls
    c_k,            \* loop index of the step it is in
    c_meta,         \* its ValidationMetadata: the two counters
    c_log,          \* history: the items validated successfully, in order
    out_file,       \* the output file: <<>> or <<content>> as compile_internal wrote it
    c_ret           \* <<>> while running, then what compile_with_validation returned

execVars == <<chunks, max_parallel, path_has, pc, batch_start, task, result,
              chunk_results, merge_input, finished, started, raised, ret>>

dispVars == <<handlers, d_pc, d_stage, d_args, d_idx, d_in, d_invoked, d_flags>>

lockVars == <<platform, fds, lock_handles, active_locks, next_lock_id, last_acquire>>

\* planning
planVars == <<job, options, profile, enable_ret, plan_ret>>
\* merge_chunks
mergeVars == <<m_in, m_out>>
\* estimated_speedup
speedVars == <<sp_result, sp_ret>>
\* adguard-validation-core
valVars == <<files, verify_mode, hash_db, db_file, v_ret, c_pc, c_input, c_k, c_meta,
             c_log, out_file, c_ret>>
\* every variable
vars == <<execVars, dispVars, vargs, lockVars, planVars, mergeVars, speedVars, valVars>>

Min(a, b) == IF a < b THEN a ELSE b

\* ---------------------------------------------------------------- text

\* char::is_whitespace for the characters of the model's alphabet.
IsWhitespace(c) == c \in {" ", "\r", "\n", "\t"}

RECURSIVE TrimStart(_)
TrimStart(s) ==
    IF s # <<>> /\ IsWhitespace(Head(s)) THEN TrimStart(Tail(s)) ELSE s

RECURSIVE TrimEnd(_)
TrimEnd(s) ==
    IF s # <<>> /\ IsWhitespace(s[Len(s)])
    THEN TrimEnd(SubSeq(s, 1, Len(s) - 1))
    ELSE s

\* str::trim
Trim(s) == TrimEnd(TrimStart(s))

\* str::starts_with(char)
StartsWith(s, c) == s # <<>> /\ Head(s) = c

\* One line of str::lines: a trailing "\r" left before the "\n" is dropped.
StripCr(l) ==
    IF l # <<>> /\ l[Len(l)] = "\r" THEN SubSeq(l, 1, Len(l) - 1) ELSE l

\* str::lines: split at "\n"; the text after the last "\n" is a line only
\* when it is not empty.
RECURSIVE SplitLines(_, _, _)
SplitLines(content, cur, acc) ==
    IF content = <<>>
    THEN IF cur = <<>> THEN acc ELSE Append(acc, StripCr(cur))
    ELSE IF Head(content) = "\n"
         THEN SplitLines(Tail(content), <<>>, Append(acc, StripCr(cur)))
         ELSE SplitLines(Tail(content), Append(cur, Head(content)), acc)

Lines(content) == SplitLines(content, <<>>, <<>>)

\* ---------------------------------------------------------- merge_chunks

\* chunk_results.iter().flatten()
RECURSIVE Flatten(_)
Flatten(css) == IF css = <<>> THEN <<>> ELSE Head(css) \o Flatten(Tail(css))

\* Mutant of IsStructural: lines starting with '#' are not recognised.
IsStructuralBangOnly(rule) ==
    LET trimmed == Trim(rule)
    IN  trimmed = <<>> \/ StartsWith(trimmed, "!")

\* The test that keeps a line without deduplication.
IsStructural(rule) ==
    LET trimmed == Trim(rule)
    IN  trimmed = <<>> \/ StartsWith(trimmed, "!") \/ StartsWith(trimmed, "#")

\* Mutant of SeenKey: the set is keyed by the trimmed line.
SeenKeyTrimmed(rule) == Trim(rule)

\* What seen.insert(rule.clone()) puts into the set: the raw line.
SeenKey(rule) == rule

\* The deduplication loop: seen is the HashSet of raw lines.
RECURSIVE Dedup(_, _, _)
Dedup(all_rules, seen, deduplicated) ==
    IF all_rules = <<>> THEN deduplicated
    ELSE LET rule == Head(all_rules)
         IN  IF IsStructural(rule)
             THEN Dedup(Tail(all_rules), seen, Append(deduplicated, rule))
             ELSE IF SeenKey(rule) \notin seen
                  THEN Dedup(Tail(all_rules), seen \cup {SeenKey(rule)},
                             Append(deduplicated, rule))
                  ELSE Dedup(Tail(all_rules), seen, deduplicated)

RECURSIVE SumLen(_)
SumLen(css) == IF css = <<>> THEN 0 ELSE Len(Head(css)) + SumLen(Tail(css))

\* Mutant of MergeChunks: total_before is not reduced by the merged length.
MergeChunksTotalBefore(css) ==
    LET deduplicated == Dedup(Flatten(css), {}, <<>>)
    IN  [rules |-> deduplicated, duplicates_removed |-> SumLen(css)]

\* merge_chunks: (deduplicated, duplicates_removed)
MergeChunks(css) ==
    LET deduplicated == Dedup(Flatten(css), {}, <<>>)
    IN  [rules |-> deduplicated, duplicates_removed |-> SumLen(css) - Len(deduplicated)]

\* ------------------------------------------------------ inputs, Init

\* The ChunkMetadata split_by_source gives chunk i of total (i is 0-based);
\* the other fields are ChunkMetadata::default().
PlannedMetadata(i, total) ==
    [index |-> i, total |-> total, success |-> FALSE, error_message |-> <<>>,
     actual_rules |-> <<>>, output_path |-> <<>>]

\* A plan of n chunks, as split_into_chunks returns it.
Plan(n) == [k \in 1..n |-> PlannedMetadata(k - 1, n)]

\* ChunkedCompilationResult::default()
DefaultResult ==
    [success |-> FALSE, chunks |-> <<>>, total_rules |-> 0, final_rule_count |-> 0,
     duplicates_removed |-> 0, merged_rules |-> <<>>, errors |-> <<>>]

\* What the external compiler may leave in a chunk's output file.
OutputContents ==
    { <<"a", "\n", "b", "\n">>,
      <<"!", "c", "\n", "b", "\r", "\n", "a", "\n", "a">> }

\* Exit statuses of the external compiler process.
ExitCodes == {0, 1}

\* A chunk whose future does not exist yet.  exit is history: <<>> until the
\* chunk's process exits, then <<status, whether it created the output file>>.
IdleTask(metadata) ==
    [pc |-> "none", metadata |-> metadata, ret |-> <<>>,
     config_file |-> FALSE, output_file |-> <<>>, exit |-> <<>>]

\* EventDispatcher::new() with no call in progress.
DispatcherIdle ==
    /\ handlers = <<>>
    /\ d_pc = "idle"
    /\ d_stage = "none"
    /\ d_args = [flag |-> FALSE]
    /\ d_idx = 0
    /\ d_in = 0
    /\ d_invoked = <<>>
    /\ d_flags = <<>>

\* ValidationEventArgs::default()
DefaultValidationArgs == [findings |-> <<>>, abort |-> FALSE, abort_reason |-> <<>>]

\* FileLockService::new() on a system with no file open.
LocksIdle ==
    /\ platform = "unix"
    /\ fds = <<>>
    /\ lock_handles = <<>>
    /\ active_locks = <<>>
    /\ next_lock_id = 1
    /\ last_acquire = <<>>

\* ChunkingOptions::default() on a machine whose parallelism is unknown, no
\* job and no planning call made.  enabled_set is history: whether enabled was
\* assigned after construction.
PlanIdle ==
    /\ job = <<>>
    /\ options = [enabled |-> FALSE, enabled_set |-> FALSE, max_parallel |-> 4,
                  strategy |-> "Source"]
    /\ profile = "release"
    /\ enable_ret = <<>>
    /\ plan_ret = <<>>

\* No merge_chunks call made.
MergeIdle ==
    /\ m_in = <<>>
    /\ m_out = <<>>

\* ChunkedCompilationResult::default() and no estimated_speedup call made.
SpeedIdle ==
    /\ sp_result = [chunks |-> <<>>, total_elapsed_ms |-> 0]
    /\ sp_ret = <<>>

\* HashDatabase::new(): no entry.
EmptyDatabase == [k \in {} |-> k]

\* No input file, ValidationConfig::default() (Warning mode), HashDatabase::new(),
\* no database file and no validation call made.
ValidationIdle ==
    /\ files = <<>>
    /\ verify_mode = "Warning"
    /\ hash_db = EmptyDatabase
    /\ db_file = EmptyDatabase
    /\ v_ret = <<>>
    /\ c_pc = "idle"
    /\ c_input = [local_files |-> <<>>, remote_urls |-> <<>>]
    /\ c_k = 0
    /\ c_meta = [local_files_validated |-> 0, remote_urls_validated |-> 0]
    /\ c_log = <<>>
    /\ out_file = <<>>
    /\ c_ret = <<>>

\* The start of a compile_chunks_async call.
ExecInit ==
    /\ chunks \in {Plan(n) : n \in 0..MaxChunks}
    /\ max_parallel \in 1..MaxWorkers
    /\ path_has \in SUBSET {"hostlist-compiler", "npx"}
    /\ pc = "loop"
    /\ batch_start = 0
    /\ task = [i \in DOMAIN chunks |-> IdleTask(chunks[i])]
    /\ result = DefaultResult
    /\ chunk_results = <<>>
    /\ merge_input = <<>>
    /\ finished = <<>>
    /\ started = [i \in DOMAIN chunks |-> 0]
    /\ raised = <<>>
    /\ ret = <<>>

Init ==
    /\ ExecInit
    /\ DispatcherIdle
    /\ vargs = DefaultValidationArgs
    /\ LocksIdle
    /\ PlanIdle
    /\ MergeIdle
    /\ SpeedIdle
    /\ ValidationIdle

\* ------------------------------------------- compile_single_chunk_async

\* temp_output_path: a fresh uuid per call, so one path per chunk task.
TempOutputPath(i) == <<"chunk-output", i>>

\* get_compiler_command: the binary, else the npx proxy, else CompilerNotFound.
GetCompilerCommand ==
    IF "hostlist-compiler" \in path_has THEN <<"Ok", "hostlist-compiler">>
    ELSE IF "npx" \in path_has THEN <<"Ok", "npx">>
    ELSE <<"Err", "CompilerNotFound">>

\* Mutant of TempFileCleanup: the temp config file is left behind.
TempFileCleanupKeepsConfig(t) == [t EXCEPT !.output_file = <<>>]

\* Drop of TempFileCleanup: both temp files are removed.
TempFileCleanup(t) == [t EXCEPT !.config_file = FALSE, !.output_file = <<>>]

\* The future of chunk i completes with value r = <<"Ok", rules, metadata>> or
\* <<"Err", e>>; _cleanup is dropped on the way out.  exit is the history of the
\* chunk's process.
Return(i, r, exit) ==
    /\ task' = [task EXCEPT ![i] =
                  TempFileCleanup([@ EXCEPT !.pc = "done", !.ret = r, !.exit = exit])]
    /\ finished' = Append(finished, i)

\* The exit status test of the chunk's process.
ExitSuccess(code) == code = 0

\* The metadata of a chunk whose process exited with a failure status.
FailedMetadata(m, code) ==
    [m EXCEPT !.success = FALSE, !.error_message = << <<"exit code", code>> >>]

\* Mutant of SucceededMetadata: actual_rules is left unset.
SucceededMetadataNoCount(m, rules, path) ==
    [m EXCEPT !.success = TRUE, !.output_path = <<path>>]

\* The metadata of a chunk after its output was taken.
SucceededMetadata(m, rules, path) ==
    [m EXCEPT !.success = TRUE, !.actual_rules = <<Len(rules)>>,
              !.output_path = <<path>>]

\* tokio::fs::write of the temp config ends; then the command is resolved and
\* the process is spawned (Command::output), all before the next await.
WriteDone(i) ==
    /\ pc = "join"
    /\ task[i].pc = "writing"
    /\ \E wrote \in BOOLEAN, spawned \in BOOLEAN :
         IF ~wrote THEN Return(i, <<"Err", "FileSystem:write">>, <<>>)
         ELSE IF GetCompilerCommand[1] = "Err"
              THEN Return(i, <<"Err", GetCompilerCommand[2]>>, <<>>)
         ELSE IF ~spawned THEN Return(i, <<"Err", "ProcessExecution">>, <<>>)
         ELSE /\ task' = [task EXCEPT ![i].pc = "running", ![i].config_file = TRUE]
              /\ UNCHANGED finished
    /\ UNCHANGED <<chunks, max_parallel, path_has, pc, batch_start, result,
                   chunk_results, merge_input, started, raised, ret>>

\* The compiler process of chunk i exits with status code, having written
\* file (<<>>: nothing, <<c>>: content c) to the temp output path.
ProcessExit(i) ==
    /\ pc = "join"
    /\ task[i].pc = "running"
    /\ \E code \in ExitCodes, file \in {<<>>} \cup {<<c>> : c \in OutputContents} :
         IF ~ExitSuccess(code)
         THEN Return(i, <<"Ok", <<>>, FailedMetadata(task[i].metadata, code)>>,
                     <<code, file # <<>>>>)
         ELSE /\ task' = [task EXCEPT ![i].pc = "checking", ![i].output_file = file,
                                      ![i].exit = <<code, file # <<>>>>]
              /\ UNCHANGED finished
    /\ UNCHANGED <<chunks, max_parallel, path_has, pc, batch_start, result,
                   chunk_results, merge_input, started, raised, ret>>

\* tokio::fs::try_exists(..).await.unwrap_or(false) ends: an I/O error counts
\* as "does not exist".  Without the file the rules are the empty list.
ExistsDone(i) ==
    /\ pc = "join"
    /\ task[i].pc = "checking"
    /\ \E io_ok \in BOOLEAN :
         IF io_ok /\ task[i].output_file # <<>>
         THEN /\ task' = [task EXCEPT ![i].pc = "reading"]
              /\ UNCHANGED finished
         ELSE Return(i, <<"Ok", <<>>,
                          SucceededMetadata(task[i].metadata, <<>>, TempOutputPath(i))>>,
                     task[i].exit)
    /\ UNCHANGED <<chunks, max_parallel, path_has, pc, batch_start, result,
                   chunk_results, merge_input, started, raised, ret>>

\* tokio::fs::read_to_string ends.
ReadDone(i) ==
    /\ pc = "join"
    /\ task[i].pc = "reading"
    /\ \E read_ok \in BOOLEAN :
         IF read_ok
         THEN LET rules == Lines(task[i].output_file[1])
              IN  Return(i, <<"Ok", rules,
                              SucceededMetadata(task[i].metadata, rules, TempOutputPath(i))>>,
                         task[i].exit)
         ELSE Return(i, <<"Err", "FileSystem:read">>, task[i].exit)
    /\ UNCHANGED <<chunks, max_parallel, path_has, pc, batch_start, result,
                   chunk_results, merge_input, started, raised, ret>>

\* ------------------------------------------------- compile_chunks_async

\* Mutant of BatchEnd: an off-by-one batch end, one chunk too many per batch.
BatchEndOffByOne(bs) == Min(bs + max_parallel + 1, Len(chunks))

\* batch_end of the batch that starts at bs.
BatchEnd(bs) == Min(bs + max_parallel, Len(chunks))

\* Positions of chunks[bs..batch_end].
Batch(bs) == (bs + 1)..BatchEnd(bs)

\* The next value of the loop variable: (0..len).step_by(max_parallel).
NextBatchStart(bs) == bs + max_parallel

\* Mutant of HasNextBatch: the loop stops at the first recorded error.
HasNextBatchUnlessError(bs) == bs < Len(chunks) /\ result.errors = <<>>

\* The loop condition of the batch loop.
HasNextBatch(bs) == bs < Len(chunks)

\* The first poll of a chunk's future: it runs up to its first await, the
\* write of the temp config (serializing a CompilerConfig, a struct of strings
\* and vectors, does not fail).
NewTask(metadata) == [IdleTask(metadata) EXCEPT !.pc = "writing"]

\* Mutant of JoinAllReady: the wait ends with the first completed future.
JoinAllReadyAny(bs) == \E i \in Batch(bs) : task[i].pc = "done"

\* join_all(tasks).await returns once every future of the batch has completed.
JoinAllReady(bs) == \A i \in Batch(bs) : task[i].pc = "done"

\* Mutant of BatchResults: the values in the order the futures completed.
BatchResultsAsCompleted(bs) ==
    LET done == SelectSeq(finished, LAMBDA i : i \in Batch(bs))
    IN  [k \in 1..Len(done) |-> task[done[k]].ret]

\* The Vec join_all returns: the futures' values in the order of the futures.
BatchResults(bs) == [k \in 1..(BatchEnd(bs) - bs) |-> task[bs + k].ret]

\* Display of a CompilerError (the #[error(..)] texts).
ErrorToString(e) ==
    CASE e = "CompilerNotFound" -> "hostlist-compiler not found"
      [] e = "ProcessExecution" -> "failed to execute process"
      [] OTHER -> "file system error"

\* Mutant of CollectOne: an Err result is dropped instead of recorded.
CollectOneDropErr(acc, r) ==
    IF r # <<>> /\ r[1] = "Ok"
    THEN LET rules == r[2]
             metadata == r[3]
             acc1 == IF metadata.success
                     THEN [acc EXCEPT !.chunk_results = Append(@, rules),
                                      !.merge_input = Append(@, metadata.index)]
                     ELSE acc
             acc2 == IF ~metadata.success /\ metadata.error_message # <<>>
                     THEN [acc1 EXCEPT !.errors =
                             Append(@, <<"Chunk", metadata.index + 1,
                                         metadata.error_message[1]>>)]
                     ELSE acc1
         IN  [acc2 EXCEPT !.chunks = Append(@, metadata)]
    ELSE acc

\* The body of `for batch_result in batch_results` for one result; acc holds
\* result.chunks, result.errors, chunk_results and the history merge_input.
CollectOne(acc, r) ==
    IF r # <<>> /\ r[1] = "Ok"
    THEN LET rules == r[2]
             metadata == r[3]
             acc1 == IF metadata.success
                     THEN [acc EXCEPT !.chunk_results = Append(@, rules),
                                      !.merge_input = Append(@, metadata.index)]
                     ELSE acc
             acc2 == IF ~metadata.success /\ metadata.error_message # <<>>
                     THEN [acc1 EXCEPT !.errors =
                             Append(@, <<"Chunk", metadata.index + 1,
                                         metadata.error_message[1]>>)]
                     ELSE acc1
         IN  [acc2 EXCEPT !.chunks = Append(@, metadata)]
    ELSE IF r # <<>> /\ r[1] = "Err"
    THEN [acc EXCEPT !.errors = Append(@, <<ErrorToString(r[2])>>)]
    ELSE acc

RECURSIVE Collect(_, _)
Collect(acc, rs) ==
    IF rs = <<>> THEN acc ELSE Collect(CollectOne(acc, Head(rs)), Tail(rs))

\* One iteration of the batch loop up to the await: the batch's futures are
\* built and join_all polls each of them for the first time.
StartBatch ==
    /\ pc = "loop"
    /\ HasNextBatch(batch_start)
    /\ task' = [i \in DOMAIN task |->
                  IF i \in Batch(batch_start) THEN NewTask(chunks[i]) ELSE task[i]]
    /\ started' = [i \in DOMAIN started |->
                     IF i \in Batch(batch_start) THEN started[i] + 1 ELSE started[i]]
    /\ pc' = "join"
    /\ UNCHANGED <<chunks, max_parallel, path_has, batch_start, result,
                   chunk_results, merge_input, finished, raised, ret>>

\* join_all returns; the batch's results are collected in order and the loop
\* variable advances.
JoinAll ==
    /\ pc = "join"
    /\ JoinAllReady(batch_start)
    /\ LET acc == Collect([chunks |-> result.chunks, errors |-> result.errors,
                           chunk_results |-> chunk_results,
                           merge_input |-> merge_input],
                          BatchResults(batch_start))
       IN  /\ result' = [result EXCEPT !.chunks = acc.chunks, !.errors = acc.errors]
           /\ chunk_results' = acc.chunk_results
           /\ merge_input' = acc.merge_input
    /\ batch_start' = NextBatchStart(batch_start)
    /\ pc' = "loop"
    /\ UNCHANGED <<chunks, max_parallel, path_has, task, finished, started,
                   raised, ret>>

RECURSIVE SumActualRules(_)
SumActualRules(ms) ==
    IF ms = <<>> THEN 0
    ELSE (IF Head(ms).actual_rules = <<>> THEN 0 ELSE Head(ms).actual_rules[1])
         + SumActualRules(Tail(ms))

\* result.success
Success(errors) == errors = <<>>

\* The code after the batch loop, applied to result r and chunk outputs css.
Finalize(r, css) ==
    LET merged == MergeChunks(css)
        r1 == IF css # <<>>
              THEN [r EXCEPT !.final_rule_count = Len(merged.rules),
                             !.duplicates_removed = merged.duplicates_removed,
                             !.merged_rules = <<merged.rules>>]
              ELSE r
    IN  [r1 EXCEPT !.total_rules = SumActualRules(r.chunks),
                   !.success = Success(r.errors)]

\* What compile_chunks_async returns: always Ok(result).
ReturnValue == <<"Ok">>

\* The batch loop ends: merge, totals, success, and Ok(result) is returned.
Finish ==
    /\ pc = "loop"
    /\ ~HasNextBatch(batch_start)
    /\ result' = Finalize(result, chunk_results)
    /\ ret' = ReturnValue
    /\ pc' = "done"
    /\ UNCHANGED <<chunks, max_parallel, path_has, batch_start, task,
                   chunk_results, merge_input, finished, started, raised>>

\* The steps of a compile_chunks_async run.
Next ==
    \/ StartBatch /\ UNCHANGED <<dispVars, vargs, lockVars, planVars, mergeVars, speedVars, valVars>>
    \/ (\E i \in DOMAIN task : WriteDone(i)) /\ UNCHANGED <<dispVars, vargs, lockVars, planVars, mergeVars, speedVars, valVars>>
    \/ (\E i \in DOMAIN task : ProcessExit(i)) /\ UNCHANGED <<dispVars, vargs, lockVars, planVars, mergeVars, speedVars, valVars>>
    \/ (\E i \in DOMAIN task : ExistsDone(i)) /\ UNCHANGED <<dispVars, vargs, lockVars, planVars, mergeVars, speedVars, valVars>>
    \/ (\E i \in DOMAIN task : ReadDone(i)) /\ UNCHANGED <<dispVars, vargs, lockVars, planVars, mergeVars, speedVars, valVars>>
    \/ JoinAll /\ UNCHANGED <<dispVars, vargs, lockVars, planVars, mergeVars, speedVars, valVars>>
    \/ Finish /\ UNCHANGED <<dispVars, vargs, lockVars, planVars, mergeVars, speedVars, valVars>>

Spec == Init /\ [][Next]_vars

\* The scheduling of the run: the executor polls every future of the batch
\* until it completes, file operations end, and every spawned process exits.
FairSpec == Spec /\ WF_vars(Next)

TypeOK ==
    /\ pc \in {"loop", "join", "done"}
    /\ batch_start \in Nat
    /\ \A i \in DOMAIN task :
         task[i].pc \in {"none", "writing", "running", "checking", "reading", "done"}

\* ================================================================ claims

\* The batch of the chunk at position i (0-based batch number).
BatchNumber(i) == (i - 1) \div max_parallel

\* The chunk at position i has been started: its future was polled.
Started(i) == task[i].pc # "none"

\* The chunk at position i has completed, with a value Ok or Err.
Completed(i) == task[i].pc = "done"

\* The chunk's future returned Ok with metadata.success = true.
Succeeded(i) ==
    /\ Completed(i)
    /\ task[i].ret[1] = "Ok"
    /\ task[i].ret[3].success

\* The chunk's future completed otherwise.
Failed(i) == Completed(i) /\ ~Succeeded(i)

\* The chunk's compiler process is running: spawned and not yet exited.
ProcessRunning(i) == task[i].pc = "running"

StrictlyAscending(s) == \A k \in 1..(Len(s) - 1) : s[k] < s[k + 1]

\* C1: batches are a hard barrier: a chunk of a later batch is started only
\* when every chunk of every earlier batch has completed, whatever the order
\* in which the chunks of a batch complete.
C1_BatchBarrier ==
    \A i, j \in DOMAIN task :
        BatchNumber(i) < BatchNumber(j) /\ Started(j) => Completed(i)

\* C1 witness: a chunk of the second batch runs after the two chunks of the
\* first batch completed in the reverse of their index order, one failing.
C1_Witness ==
    /\ max_parallel = 2
    /\ Len(finished) >= 2 /\ finished[1] = 2 /\ finished[2] = 1
    /\ Failed(1)
    /\ \E j \in DOMAIN task : BatchNumber(j) = 1 /\ ProcessRunning(j)

\* C2: at every moment at most max_parallel compiler processes are running.
C2_BoundedParallelism ==
    Cardinality({i \in DOMAIN task : ProcessRunning(i)}) <= max_parallel

\* C2 witness: with more chunks than workers, max_parallel processes run at once.
C2_Witness ==
    /\ max_parallel = 2
    /\ Len(chunks) > max_parallel
    /\ Cardinality({i \in DOMAIN task : ProcessRunning(i)}) = max_parallel

\* C3: failure isolation: no chunk is started twice or loses its completion,
\* and, every spawned process exiting, every chunk is eventually started
\* exactly once and completed, chunks of batches after a failing chunk included.
C3_FailureIsolation ==
    /\ [](\A i \in DOMAIN task : started[i] <= 1)
    /\ [][\A i \in DOMAIN task : Completed(i) => Completed(i)']_vars
    /\ <>(\A i \in DOMAIN task : started[i] = 1 /\ Completed(i))

\* C3 witness: the run is over, a chunk of the first batch failed and a chunk
\* of a later batch was started once and completed.
C3_Witness ==
    /\ pc = "done"
    /\ \E i, j \in DOMAIN task :
         /\ BatchNumber(i) < BatchNumber(j)
         /\ Failed(i)
         /\ started[j] = 1 /\ Succeeded(j)

\* C4: in the returned result, success holds exactly when every chunk
\* succeeded, which is exactly when errors is empty, and errors has an entry
\* for every chunk that did not succeed.
C4_SuccessIffAllSucceeded ==
    pc = "done" =>
        /\ result.success <=> (\A i \in DOMAIN task : Succeeded(i))
        /\ result.success <=> (result.errors = <<>>)
        /\ Len(result.errors) >= Cardinality({i \in DOMAIN task : Failed(i)})
        /\ \A i \in DOMAIN task :
             Failed(i) /\ task[i].ret[1] = "Ok" =>
                \E k \in DOMAIN result.errors :
                    /\ Len(result.errors[k]) = 3
                    /\ result.errors[k][2] = task[i].metadata.index + 1

\* C4 witness: a returned result with success = false where one chunk's
\* future returned Err, another exited with a failure status and a third succeeded.
C4_Witness ==
    /\ pc = "done"
    /\ ~result.success
    /\ \E i, j, k \in DOMAIN task :
         /\ task[i].ret[1] = "Err"
         /\ Failed(j) /\ task[j].ret[1] = "Ok"
         /\ Succeeded(k)

\* merge_input of a chunk_results list taken alone.
IndicesOf(ms) == [k \in DOMAIN ms |-> ms[k].index]

\* C5: result.chunks is in strictly ascending chunk index order, and so is the
\* list of chunk outputs given to merge_chunks, whatever the completion order.
C5_IndexOrderPreserved ==
    /\ StrictlyAscending(IndicesOf(result.chunks))
    /\ StrictlyAscending(merge_input)
    /\ Len(merge_input) = Len(chunk_results)

\* C5 witness: two chunks of one batch completed in the reverse of their index
\* order, both succeeded and both are in result.chunks and in the merge input.
C5_Witness ==
    /\ pc = "done"
    /\ max_parallel = 2
    /\ Len(finished) >= 2 /\ finished[1] = 2 /\ finished[2] = 1
    /\ Succeeded(1) /\ Succeeded(2)
    /\ Len(result.chunks) >= 2 /\ Len(merge_input) >= 2

\* The outputs of the chunks that succeeded, from position i on, in index order.
RECURSIVE OutputsFrom(_)
OutputsFrom(i) ==
    IF i > Len(chunks) THEN <<>>
    ELSE (IF Succeeded(i) THEN <<task[i].ret[2]>> ELSE <<>>) \o OutputsFrom(i + 1)

\* C6: merged_rules and duplicates_removed of the returned result are a
\* function of the chunks' outputs and outcomes alone, so two runs that agree
\* on them agree on both, whatever the completion interleaving.
C6_DeterministicMerge ==
    pc = "done" =>
        LET css == OutputsFrom(1)
        IN  IF css = <<>>
            THEN result.merged_rules = <<>> /\ result.duplicates_removed = 0
            ELSE /\ result.merged_rules = <<MergeChunks(css).rules>>
                 /\ result.duplicates_removed = MergeChunks(css).duplicates_removed
                 /\ result.final_rule_count = Len(MergeChunks(css).rules)

\* C6 witness: two chunks of one batch with different outputs completed in the
\* reverse of their index order, and the merge removed a duplicate.
C6_Witness ==
    /\ pc = "done"
    /\ max_parallel = 2
    /\ Len(finished) >= 2 /\ finished[1] = 2 /\ finished[2] = 1
    /\ Succeeded(1) /\ Succeeded(2)
    /\ task[1].ret[2] # task[2].ret[2]
    /\ task[1].ret[2] # <<>> /\ task[2].ret[2] # <<>>
    /\ result.duplicates_removed > 0

\* C7: every chunk that failed is in result.chunks with success = false and
\* error_message set and has an entry in result.errors, so result.chunks has
\* one entry per chunk.
C7_EveryChunkReported ==
    pc = "done" =>
        /\ Len(result.chunks) = Len(chunks)
        /\ \A i \in DOMAIN task :
             Failed(i) =>
                /\ \E k \in DOMAIN result.chunks :
                     /\ result.chunks[k].index = task[i].metadata.index
                     /\ ~result.chunks[k].success
                     /\ result.chunks[k].error_message # <<>>
                /\ result.errors # <<>>

\* C8: a chunk whose process exited with status 0 without creating the output
\* file is recorded as failed, and the result is not a success.
C8_MissingOutputIsFailure ==
    pc = "done" =>
        \A i \in DOMAIN task :
            task[i].exit = <<0, FALSE>> =>
                /\ Failed(i)
                /\ ~result.success
                /\ result.errors # <<>>

\* C9: when no compiler command can be resolved, compile_chunks_async returns
\* the CompilerNotFound error, not an Ok result.
C9_CompilerNotFoundReturned ==
    pc = "done" =>
        ((\E i \in DOMAIN task : task[i].ret = <<"Err", "CompilerNotFound">>)
            => ret = <<"Err", "CompilerNotFound">>)

\* The chunk-started event of the chunk at position i was raised.
ChunkStartedRaised(i) ==
    \E k \in DOMAIN raised :
        raised[k] = <<"ChunkStarted", task[i].metadata.index>>

\* The chunk-completed event of the chunk at position i was raised.
ChunkCompletedRaised(i) ==
    \E k \in DOMAIN raised :
        raised[k] = <<"ChunkCompleted", task[i].metadata.index>>

\* C10: a chunk's chunk-started event is raised before its compiler process is
\* spawned, and its chunk-completed event once the process has finished.
C10_ChunkEventsRaised ==
    \A i \in DOMAIN task :
        /\ task[i].exit # <<>> \/ ProcessRunning(i) => ChunkStartedRaised(i)
        /\ pc = "done" /\ task[i].exit # <<>> => ChunkCompletedRaised(i)

\* ============================================================ events.rs

\* Largest number of handlers registered on a dispatcher.
MaxHandlers == 3

\* No compile_chunks_async call is under way.
ExecIdle ==
    /\ chunks = <<>>
    /\ max_parallel = 1
    /\ path_has = {}
    /\ pc = "loop"
    /\ batch_start = 0
    /\ task = <<>>
    /\ result = DefaultResult
    /\ chunk_results = <<>>
    /\ merge_input = <<>>
    /\ finished = <<>>
    /\ started = <<>>
    /\ raised = <<>>
    /\ ret = <<>>

\* ------------------------------------------------------ EventDispatcher

\* The stages: one raise_* function and one callback of the handler trait each.
Stages ==
    {"CompilationStarting", "ConfigurationLoaded", "Validation", "SourceLoading",
     "SourceLoaded", "FileLockAcquired", "FileLockReleased", "FileLockFailed",
     "ChunkStarted", "ChunkCompleted", "ChunksMerging", "ChunksMerged",
     "CompilationCompleted", "CompilationError"}

\* The stages whose callback takes `args: &mut ..`; flag stands for cancel
\* (CompilationStarting), abort (Validation), skip (SourceLoading, ChunkStarted),
\* continue_without_lock (FileLockFailed) and handled (CompilationError).
MutableArgs(stage) ==
    stage \in {"CompilationStarting", "Validation", "SourceLoading",
               "FileLockFailed", "ChunkStarted", "CompilationError"}

\* Mutant of BreaksOnFlag: raise_validation without its `if args.abort { break }`.
BreaksOnFlagNotValidation(stage) ==
    stage \in {"CompilationStarting", "SourceLoading", "ChunkStarted"}

\* Mutant of BreaksOnFlag: raise_chunk_started, raise_source_loading and
\* raise_compilation_starting without their break.
BreaksOnFlagOnlyValidation(stage) == stage = "Validation"

\* Mutant of BreaksOnFlag: every raise_* function with mutable args breaks.
BreaksOnFlagAllMutable(stage) == MutableArgs(stage)

\* The raise_* functions whose loop tests the flag after each callback and breaks.
BreaksOnFlag(stage) ==
    stage \in {"CompilationStarting", "Validation", "SourceLoading", "ChunkStarted"}

\* What a handler's callback does to the control flag of mutable args.
Behaviours == {"keep", "set", "clear"}

\* Mutant of Push: the handler is inserted at the front.
PushFront(hs, h) == <<h>> \o hs

\* add_handler: self.handlers.push(handler)
Push(hs, h) == Append(hs, h)

\* A callback with behaviour does, applied to the args of stage; read-only
\* args (`&..`) cannot be changed.
ApplyHandler(stage, does, args) ==
    IF ~MutableArgs(stage) THEN args
    ELSE CASE does = "set" -> [args EXCEPT !.flag = TRUE]
           [] does = "clear" -> [args EXCEPT !.flag = FALSE]
           [] OTHER -> args

\* Mutant of HandlerAt: the loop walks the handlers from the last to the first.
HandlerAtReversed(k) == handlers[Len(handlers) + 1 - k]

\* The k-th handler of `for handler in &self.handlers`.
HandlerAt(k) == handlers[k]

\* add_handler(handler): needs `&mut self`, so no raise_* call is in progress.
AddHandler(does) ==
    /\ d_pc = "idle"
    /\ Len(handlers) < MaxHandlers
    /\ handlers' = Push(handlers, [id |-> Len(handlers) + 1, does |-> does])
    /\ UNCHANGED <<d_pc, d_stage, d_args, d_idx, d_in, d_invoked, d_flags>>

\* A caller enters raise_<stage>(args) with the control flag as it built it.
DispatchBegin(stage, flag) ==
    /\ d_pc = "idle"
    /\ d_pc' = "running"
    /\ d_stage' = stage
    /\ d_args' = [flag |-> flag]
    /\ d_idx' = 1
    /\ d_in' = 0
    /\ d_invoked' = <<>>
    /\ d_flags' = <<>>
    /\ UNCHANGED handlers

\* The loop calls the next handler's callback.
HandlerEnter ==
    /\ d_pc = "running"
    /\ d_in = 0
    /\ d_idx <= Len(handlers)
    /\ d_in' = HandlerAt(d_idx).id
    /\ d_invoked' = Append(d_invoked, HandlerAt(d_idx).id)
    /\ UNCHANGED <<handlers, d_pc, d_stage, d_args, d_idx, d_flags>>

\* The callback returns; the loop tests the flag where the stage has the test
\* and breaks (the function returns), else goes on to the next handler.
HandlerReturn ==
    /\ d_pc = "running"
    /\ d_in # 0
    /\ LET args == ApplyHandler(d_stage, HandlerAt(d_idx).does, d_args)
       IN  /\ d_args' = args
           /\ d_flags' = Append(d_flags, args.flag)
           /\ IF BreaksOnFlag(d_stage) /\ args.flag
              THEN d_pc' = "returned" /\ d_idx' = d_idx
              ELSE d_pc' = d_pc /\ d_idx' = d_idx + 1
    /\ d_in' = 0
    /\ UNCHANGED <<handlers, d_stage, d_invoked>>

\* Mutant of DispatchReturn: the loop also tests the flag before a callback.
DispatchReturnTestsFlagFirst ==
    /\ d_pc = "running"
    /\ d_in = 0
    /\ d_idx > Len(handlers) \/ (BreaksOnFlag(d_stage) /\ d_args.flag)
    /\ d_pc' = "returned"
    /\ UNCHANGED <<handlers, d_stage, d_args, d_idx, d_in, d_invoked, d_flags>>

\* The loop is exhausted and the raise_* function returns.
DispatchReturn ==
    /\ d_pc = "running"
    /\ d_in = 0
    /\ d_idx > Len(handlers)
    /\ d_pc' = "returned"
    /\ UNCHANGED <<handlers, d_stage, d_args, d_idx, d_in, d_invoked, d_flags>>

\* The caller has read the args and discards them.
DispatchDiscard ==
    /\ d_pc = "returned"
    /\ d_pc' = "idle"
    /\ d_stage' = "none"
    /\ d_args' = [flag |-> FALSE]
    /\ d_idx' = 0
    /\ d_invoked' = <<>>
    /\ d_flags' = <<>>
    /\ UNCHANGED <<handlers, d_in>>

DispatchInit ==
    /\ ExecIdle
    /\ DispatcherIdle
    /\ vargs = DefaultValidationArgs
    /\ LocksIdle
    /\ PlanIdle
    /\ MergeIdle
    /\ SpeedIdle
    /\ ValidationIdle

DispatchNext ==
    \/ (\E does \in Behaviours : AddHandler(does))
          /\ UNCHANGED <<execVars, vargs, lockVars, planVars, mergeVars, speedVars, valVars>>
    \/ (\E stage \in Stages, flag \in BOOLEAN :
            (flag => MutableArgs(stage)) /\ DispatchBegin(stage, flag))
          /\ UNCHANGED <<execVars, vargs, lockVars, planVars, mergeVars, speedVars, valVars>>
    \/ HandlerEnter /\ UNCHANGED <<execVars, vargs, lockVars, planVars, mergeVars, speedVars, valVars>>
    \/ HandlerReturn /\ UNCHANGED <<execVars, vargs, lockVars, planVars, mergeVars, speedVars, valVars>>
    \/ DispatchReturn /\ UNCHANGED <<execVars, vargs, lockVars, planVars, mergeVars, speedVars, valVars>>
    \/ DispatchDiscard /\ UNCHANGED <<execVars, vargs, lockVars, planVars, mergeVars, speedVars, valVars>>

\* An EventDispatcher, its handlers and the raise_* calls made on it.
DispatchSpec == DispatchInit /\ [][DispatchNext]_vars

\* ------------------------------------------------- EventDispatcher claims

\* The positions of the handler list whose callback left the flag true.
FlagLeftTrue == {k \in DOMAIN d_flags : d_flags[k]}

\* The handlers invoked so far are the first Len(d_invoked) of the list.
InvokedIsPrefix ==
    /\ Len(d_invoked) <= Len(handlers)
    /\ \A k \in DOMAIN d_invoked : d_invoked[k] = handlers[k].id

\* In a dispatch of stage: no handler is invoked after one that left the flag
\* true, and on return the handlers invoked are exactly those up to the first
\* that left it true (all of them when none did).
EarlyExit(stage) ==
    d_stage = stage =>
        /\ InvokedIsPrefix
        /\ \A k \in FlagLeftTrue : Len(d_invoked) = k
        /\ d_pc = "returned" =>
              /\ Len(d_flags) = Len(d_invoked)
              /\ FlagLeftTrue = {} => Len(d_invoked) = Len(handlers)

\* C12: in raise_validation, once a handler's on_validation leaves args.abort
\* true no handler registered after it is invoked in that dispatch; the
\* handlers invoked are exactly those up to the first aborting one.
C12_ValidationAbortStopsDispatch == EarlyExit("Validation")

C12_Witness ==
    /\ d_pc = "returned"
    /\ d_stage = "Validation"
    /\ Len(handlers) = 3
    /\ d_invoked = <<1, 2>>
    /\ d_flags = <<FALSE, TRUE>>

\* C13: raise_compilation_starting stops after the first handler that leaves
\* cancel true, raise_source_loading and raise_chunk_started after the first
\* that leaves skip true; later handlers are not invoked in that dispatch.
C13_CancelSkipStopDispatch ==
    /\ EarlyExit("CompilationStarting")
    /\ EarlyExit("SourceLoading")
    /\ EarlyExit("ChunkStarted")

C13_Witness ==
    /\ d_pc = "returned"
    /\ d_stage \in {"CompilationStarting", "SourceLoading", "ChunkStarted"}
    /\ Len(handlers) = 3
    /\ d_invoked = <<1>>
    /\ d_flags = <<TRUE>>

\* C14: for every stage a dispatch invokes the handlers in the order add_handler
\* registered them, one at a time (the next is called only after the previous
\* returned), each at most once, and the invoked ones are a prefix of the
\* registration list.
C14_RegistrationOrder ==
    d_pc \in {"running", "returned"} =>
        /\ InvokedIsPrefix
        /\ \A k \in DOMAIN d_invoked : d_invoked[k] = k
        /\ Len(d_flags) = Len(d_invoked) - (IF d_in # 0 THEN 1 ELSE 0)
        /\ d_in # 0 => d_in = d_invoked[Len(d_invoked)]

C14_Witness ==
    /\ d_pc = "running"
    /\ d_stage = "FileLockFailed"
    /\ Len(handlers) = 3
    /\ d_in = 3
    /\ d_invoked = <<1, 2, 3>>
    /\ d_flags = <<TRUE, FALSE>>

\* ------------------------------------------- abort and the chunked pipeline

\* A dispatcher with one validation handler, which either aborts or does not.
AbortInit ==
    /\ ExecInit
    /\ \E does \in {"keep", "set"} : handlers = <<[id |-> 1, does |-> does]>>
    /\ d_pc = "idle"
    /\ d_stage = "none"
    /\ d_args = [flag |-> FALSE]
    /\ d_idx = 0
    /\ d_in = 0
    /\ d_invoked = <<>>
    /\ d_flags = <<>>
    /\ vargs = DefaultValidationArgs
    /\ LocksIdle
    /\ PlanIdle
    /\ MergeIdle
    /\ SpeedIdle
    /\ ValidationIdle

\* The steps of compile_chunks_async, which takes (chunks, options, debug) and
\* neither a dispatcher nor any args, together with those of a
\* raise_validation call on the dispatcher of the same compilation.
AbortNext ==
    \/ StartBatch /\ UNCHANGED <<dispVars, vargs, lockVars, planVars, mergeVars, speedVars, valVars>>
    \/ (\E i \in DOMAIN task : WriteDone(i)) /\ UNCHANGED <<dispVars, vargs, lockVars, planVars, mergeVars, speedVars, valVars>>
    \/ (\E i \in DOMAIN task : ProcessExit(i)) /\ UNCHANGED <<dispVars, vargs, lockVars, planVars, mergeVars, speedVars, valVars>>
    \/ (\E i \in DOMAIN task : ExistsDone(i)) /\ UNCHANGED <<dispVars, vargs, lockVars, planVars, mergeVars, speedVars, valVars>>
    \/ (\E i \in DOMAIN task : ReadDone(i)) /\ UNCHANGED <<dispVars, vargs, lockVars, planVars, mergeVars, speedVars, valVars>>
    \/ JoinAll /\ UNCHANGED <<dispVars, vargs, lockVars, planVars, mergeVars, speedVars, valVars>>
    \/ Finish /\ UNCHANGED <<dispVars, vargs, lockVars, planVars, mergeVars, speedVars, valVars>>
    \/ DispatchBegin("Validation", FALSE) /\ UNCHANGED <<execVars, vargs, lockVars, planVars, mergeVars, speedVars, valVars>>
    \/ HandlerEnter /\ UNCHANGED <<execVars, vargs, lockVars, planVars, mergeVars, speedVars, valVars>>
    \/ HandlerReturn /\ UNCHANGED <<execVars, vargs, lockVars, planVars, mergeVars, speedVars, valVars>>
    \/ DispatchReturn /\ UNCHANGED <<execVars, vargs, lockVars, planVars, mergeVars, speedVars, valVars>>

\* A chunked compilation and a validation dispatch of the same pipeline.
AbortSpec == AbortInit /\ [][AbortNext]_vars

\* raise_validation has returned with args.abort = true.
AbortRequested == d_stage = "Validation" /\ d_pc = "returned" /\ d_args.flag

\* The batch loop starts the next batch.
BatchStarts == pc = "loop" /\ pc' = "join"

\* The loop ends and merge_chunks runs on the collected outputs.
MergePerformed == pc = "loop" /\ pc' = "done" /\ chunk_results # <<>>

\* C11: once a handler has set abort = true and the dispatch has returned, the
\* chunked pipeline starts no further batch and does not perform the merge.
C11_AbortStopsPipeline ==
    [][AbortRequested => ~BatchStarts /\ ~MergePerformed]_vars

\* ---------------------------------------------------- ValidationEventArgs

\* Largest number of findings added to one ValidationEventArgs.
MaxFindings == 4

\* enum ValidationSeverity
ValidationSeverity == {"Info", "Warning", "Error", "Critical"}

\* The messages given to add_critical.
Messages == {"m1", "m2"}

\* add_finding(finding): self.findings.push(finding), for a finding of severity sev.
AddFinding(sev) ==
    /\ Len(vargs.findings) < MaxFindings
    /\ vargs' = [vargs EXCEPT !.findings = Append(@, sev)]

\* add_error(code, message)
AddError ==
    /\ Len(vargs.findings) < MaxFindings
    /\ vargs' = [vargs EXCEPT !.findings = Append(@, "Error")]

\* add_warning(code, message)
AddWarning ==
    /\ Len(vargs.findings) < MaxFindings
    /\ vargs' = [vargs EXCEPT !.findings = Append(@, "Warning")]

\* add_critical(code, message)
AddCritical(msg) ==
    /\ Len(vargs.findings) < MaxFindings
    /\ vargs' = [vargs EXCEPT !.findings = Append(@, "Critical"),
                              !.abort = TRUE,
                              !.abort_reason = <<msg>>]

\* passed(): no finding of severity Error or Critical.
Passed(a) == ~\E k \in DOMAIN a.findings : a.findings[k] \in {"Error", "Critical"}

ArgsInit ==
    /\ ExecIdle
    /\ DispatcherIdle
    /\ vargs = DefaultValidationArgs
    /\ LocksIdle
    /\ PlanIdle
    /\ MergeIdle
    /\ SpeedIdle
    /\ ValidationIdle

ArgsNext ==
    \/ (\E sev \in ValidationSeverity : AddFinding(sev))
          /\ UNCHANGED <<execVars, dispVars, lockVars, planVars, mergeVars, speedVars, valVars>>
    \/ AddError /\ UNCHANGED <<execVars, dispVars, lockVars, planVars, mergeVars, speedVars, valVars>>
    \/ AddWarning /\ UNCHANGED <<execVars, dispVars, lockVars, planVars, mergeVars, speedVars, valVars>>
    \/ (\E msg \in Messages : AddCritical(msg))
          /\ UNCHANGED <<execVars, dispVars, lockVars, planVars, mergeVars, speedVars, valVars>>

\* A ValidationEventArgs::default() and the add_* calls made on it.
ArgsSpec == ArgsInit /\ [][ArgsNext]_vars

\* C15: if the findings of a ValidationEventArgs contain a finding of severity
\* Critical then abort is true.
C15_CriticalForcesAbort ==
    (\E k \in DOMAIN vargs.findings : vargs.findings[k] = "Critical") => vargs.abort

\* ----------------------------------------- FileLockHandle, FileLockService

\* Largest number of handles one service hands out.
MaxLocks == 2

\* The paths given to the service; "./f1" names the file "f1", "missing" no file.
Paths == {"f1", "./f1", "f2", "missing"}

\* Path::canonicalize: Some(full path) of an existing file, None (an io::Error)
\* otherwise.
Canonicalize(path) ==
    CASE path = "missing" -> <<>>
      [] path = "./f1" -> <<"f1">>
      [] OTHER -> <<path>>

\* enum FileLockType
FileLockType == {"Read", "Write"}

\* The public entry points that reach acquire_lock.
AcquireCalls == {"acquire_read_lock", "acquire_write_lock", "try_acquire_read_lock"}

\* The lock type each entry point passes to acquire_lock.
LockTypeOf(call) == IF call = "acquire_write_lock" THEN "Write" ELSE "Read"

\* Mutant of LockMode: the flock call without LOCK_NB.
LockModeBlocking(lock_type) ==
    IF lock_type = "Read" THEN {"LOCK_SH"} ELSE {"LOCK_EX"}

\* Mutant of LockMode: a write lock requested as a shared lock.
LockModeAllShared(lock_type) == {"LOCK_SH", "LOCK_NB"}

\* lock_mode: LOCK_SH | LOCK_NB for Read, LOCK_EX | LOCK_NB for Write.
LockMode(lock_type) ==
    IF lock_type = "Read" THEN {"LOCK_SH", "LOCK_NB"} ELSE {"LOCK_EX", "LOCK_NB"}

\* flock(2) conflict: another open file description of the same file holds a
\* lock and one of the two is exclusive.
Conflict(open, path, mode) ==
    \E fd \in DOMAIN open :
        /\ open[fd].path = path
        /\ open[fd].lock # "none"
        /\ (open[fd].lock = "LOCK_EX" \/ "LOCK_EX" \in mode)

\* flock(fd, lock_mode): 0 when the lock is granted, -1 (EWOULDBLOCK) on a
\* conflict with LOCK_NB, and the call does not return on a conflict without.
Flock(open, path, mode) ==
    IF ~Conflict(open, path, mode) THEN "0"
    ELSE IF "LOCK_NB" \in mode THEN "-1" ELSE "blocks"

\* The lock an open file description holds after a granted flock.
Held(mode) == IF "LOCK_EX" \in mode THEN "LOCK_EX" ELSE "LOCK_SH"

\* Closing open file descriptions frees their locks.
Close(open, closed) == [fd \in DOMAIN open \ closed |-> open[fd]]

\* The files a handle owns, as a set.
FileOf(h) == {h.file[k] : k \in DOMAIN h.file}

\* Mutant of Release: is_active is cleared but the file is kept open.
ReleaseKeepsFile(h) == IF h.is_active THEN [h EXCEPT !.is_active = FALSE] ELSE h

\* Mutant of Release: the file is dropped but is_active stays set.
ReleaseStaysActive(h) == IF h.is_active THEN [h EXCEPT !.file = <<>>] ELSE h

\* FileLockHandle::release
Release(h) ==
    IF h.is_active THEN [h EXCEPT !.file = <<>>, !.is_active = FALSE] ELSE h

\* active_lock_count(): the size of the lock table.
ActiveLockCount == Cardinality(DOMAIN active_locks)

\* What an entry point returns for acquire_lock's result.
AcquireResult(call, res) ==
    IF call = "try_acquire_read_lock"
    THEN (IF res = "Ok" THEN "Some" ELSE "None")
    ELSE res

\* Mutant of DropFile: the file opened by a failing call stays open.
DropFileLeaks(open, fd) == open

\* An error return of acquire_lock drops its local `file`: the descriptor is
\* closed, which frees a lock flock had granted on it.
DropFile(open, fd) == Close(open, {fd})

\* acquire_read_lock / acquire_write_lock / try_acquire_read_lock(file_path,
\* compute_hash); io is how File::open and compute_hash fare.
Acquire(call, file_path, compute_hash, io) ==
    LET lock_type == LockTypeOf(call)
        full_path == Canonicalize(file_path)
        lock_id == next_lock_id
        mode == IF platform = "unix" THEN LockMode(lock_type) ELSE {}
        conflict == /\ full_path # <<>>
                    /\ io # "open_fails"
                    /\ platform = "unix"
                    /\ Conflict(fds, full_path[1], mode)
        flock == IF platform = "unix" /\ full_path # <<>>
                 THEN Flock(fds, full_path[1], mode) ELSE "0"
        outcome ==
            CASE full_path = <<>> -> "Err"
              [] io = "open_fails" -> "Err"
              [] flock = "blocks" -> "Blocked"
              [] flock # "0" -> "Err"
              [] compute_hash /\ io = "hash_fails" -> "Err"
              [] OTHER -> "Ok"
        handle == [lock_id |-> lock_id, file_path |-> full_path[1],
                   lock_type |-> lock_type,
                   content_hash |-> IF compute_hash THEN <<"sha256">> ELSE <<>>,
                   file |-> <<lock_id>>, is_active |-> TRUE]
        opened == [path |-> full_path[1],
                   lock |-> IF platform = "unix" THEN Held(mode) ELSE "none"]
    IN  /\ next_lock_id <= MaxLocks
        /\ last_acquire' = <<[call |-> call, conflict |-> conflict,
                              result |-> AcquireResult(call, outcome),
                              handle |-> IF outcome = "Ok" THEN <<lock_id>> ELSE <<>>]>>
        /\ IF outcome = "Ok"
           THEN /\ fds' = fds @@ (lock_id :> opened)
                /\ active_locks' = active_locks @@ (lock_id :> full_path[1])
                /\ lock_handles' = lock_handles @@ (lock_id :> handle)
                /\ next_lock_id' = next_lock_id + 1
           ELSE /\ fds' = IF full_path # <<>> /\ io # "open_fails"
                          THEN DropFile(fds @@ (lock_id :>
                                   [opened EXCEPT !.lock = IF flock = "0" THEN @
                                                           ELSE "none"]), lock_id)
                          ELSE fds
                /\ UNCHANGED <<active_locks, lock_handles, next_lock_id>>
        /\ UNCHANGED platform

\* handle.release() called by the handle's owner.
ReleaseHandle(id) ==
    /\ id \in DOMAIN lock_handles
    /\ LET h == Release(lock_handles[id])
       IN  /\ lock_handles' = [lock_handles EXCEPT ![id] = h]
           /\ fds' = Close(fds, FileOf(lock_handles[id]) \ FileOf(h))
    /\ UNCHANGED <<platform, active_locks, next_lock_id, last_acquire>>

\* The handle goes out of scope: Drop::drop calls release, then the fields
\* are dropped and the handle is gone.
DropHandle(id) ==
    /\ id \in DOMAIN lock_handles
    /\ fds' = Close(fds, FileOf(lock_handles[id]) \cup FileOf(Release(lock_handles[id])))
    /\ lock_handles' = [k \in DOMAIN lock_handles \ {id} |-> lock_handles[k]]
    /\ UNCHANGED <<platform, active_locks, next_lock_id, last_acquire>>

\* release_all_locks(): locks.clear()
ReleaseAllLocks ==
    /\ active_locks' = <<>>
    /\ UNCHANGED <<platform, fds, lock_handles, next_lock_id, last_acquire>>

LockInit ==
    /\ ExecIdle
    /\ DispatcherIdle
    /\ vargs = DefaultValidationArgs
    /\ platform \in {"unix", "windows"}
    /\ fds = <<>>
    /\ lock_handles = <<>>
    /\ active_locks = <<>>
    /\ next_lock_id = 1
    /\ last_acquire = <<>>
    /\ PlanIdle
    /\ MergeIdle
    /\ SpeedIdle
    /\ ValidationIdle

LockNext ==
    \/ (\E call \in AcquireCalls, file_path \in Paths, compute_hash \in BOOLEAN,
           io \in {"ok", "open_fails", "hash_fails"} :
            (io = "hash_fails" => compute_hash)
                /\ Acquire(call, file_path, compute_hash, io))
          /\ UNCHANGED <<execVars, dispVars, vargs, planVars, mergeVars, speedVars, valVars>>
    \/ (\E id \in DOMAIN lock_handles : ReleaseHandle(id))
          /\ UNCHANGED <<execVars, dispVars, vargs, planVars, mergeVars, speedVars, valVars>>
    \/ (\E id \in DOMAIN lock_handles : DropHandle(id))
          /\ UNCHANGED <<execVars, dispVars, vargs, planVars, mergeVars, speedVars, valVars>>
    \/ ReleaseAllLocks /\ UNCHANGED <<execVars, dispVars, vargs, planVars, mergeVars, speedVars, valVars>>

\* One FileLockService, the handles it handed out and their owners' calls.
LockSpec == LockInit /\ [][LockNext]_vars

\* ------------------------------------------------------ file lock claims

\* The handles that exist and are active.
ActiveHandles == {id \in DOMAIN lock_handles : lock_handles[id].is_active}

\* C16: release is idempotent: on an active handle it drops the file and
\* clears is_active; on a released handle it changes nothing, so a second call
\* (or the one from Drop) is a no-op, and a released handle holds no file.
C16_ReleaseIdempotent ==
    \A id \in DOMAIN lock_handles :
        LET h == lock_handles[id]
        IN  /\ Release(Release(h)) = Release(h)
            /\ h.is_active => Release(h).file = <<>> /\ ~Release(h).is_active
            /\ ~h.is_active => Release(h) = h /\ h.file = <<>>

C16_Witness ==
    \E id \in DOMAIN lock_handles :
        /\ ~lock_handles[id].is_active
        /\ id \notin DOMAIN fds

\* C17: every open file description of the service belongs to a handle that
\* exists and is active: once a handle is released or dropped its file is
\* closed and its OS lock is free.
C17_ScopedRelease ==
    \A fd \in DOMAIN fds :
        \E id \in ActiveHandles : lock_handles[id].file = <<fd>>

C17_Witness ==
    /\ next_lock_id = 3
    /\ DOMAIN lock_handles = {2}
    /\ ~lock_handles[2].is_active
    /\ fds = <<>>

\* C18: acquire_lock never blocks: when a conflicting lock is held the call
\* returns an error (None from try_acquire_read_lock) and creates no handle.
C18_NeverBlocks ==
    \A k \in DOMAIN last_acquire :
        /\ last_acquire[k].result # "Blocked"
        /\ last_acquire[k].conflict =>
              /\ last_acquire[k].result \in {"Err", "None"}
              /\ last_acquire[k].handle = <<>>

C18_Witness ==
    /\ last_acquire # <<>>
    /\ last_acquire[1].conflict
    /\ last_acquire[1].result = "None"
    /\ Cardinality(DOMAIN lock_handles) = 1

\* C19: on unix an active Write handle on a file never coexists with another
\* active handle on the same file; Read handles on one file may be active
\* together.
C19_ReadSharedWriteExclusive ==
    platform = "unix" =>
        \A a \in ActiveHandles, b \in ActiveHandles :
            (a # b /\ lock_handles[a].file_path = lock_handles[b].file_path) =>
                lock_handles[a].lock_type = "Read" /\ lock_handles[b].lock_type = "Read"

C19_Witness ==
    /\ platform = "unix"
    /\ ActiveHandles = {1, 2}
    /\ lock_handles[1].file_path = lock_handles[2].file_path
    /\ lock_handles[1].lock_type = "Read"
    /\ lock_handles[2].lock_type = "Read"

\* C20: active_lock_count() equals the number of handles obtained from the
\* service that are still active.
C20_CountMatchesActiveHandles == ActiveLockCount = Cardinality(ActiveHandles)

\* C21: after release_all_locks returns no lock acquired from the service is
\* still held: every handle is inactive, every OS lock is freed and
\* active_lock_count is 0.
C21_ReleaseAllReleasesAll ==
    [][ReleaseAllLocks =>
          /\ \A id \in DOMAIN lock_handles' : ~lock_handles'[id].is_active
          /\ \A fd \in DOMAIN fds' : fds'[fd].lock = "none"
          /\ Cardinality(DOMAIN active_locks') = 0]_vars

\* ============================================ chunking.rs: planning

\* Stands for usize::MAX: usize arithmetic is modulo UsizeMax + 1.
UsizeMax == 15

\* Largest number of sources of a job.
MaxSources == 4

\* std::thread::available_parallelism(): <<>> for Err, else <<n>> with n >= 1
\* (a NonZeroUsize).
AvailableParallelism == {<<>>, <<1>>, <<2>>, <<8>>}

\* enum ChunkingStrategy
ChunkingStrategy == {"Source", "LineCount"}

Max(a, b) == IF a > b THEN a ELSE b

\* usize a + b: <<>> is the panic of a build with overflow checks, else <<v>>.
Add(a, b, prof) ==
    IF a + b <= UsizeMax THEN <<a + b>>
    ELSE IF prof = "debug" THEN <<>> ELSE <<(a + b) % (UsizeMax + 1)>>

\* usize a - b
Sub(a, b, prof) ==
    IF a >= b THEN <<a - b>>
    ELSE IF prof = "debug" THEN <<>> ELSE <<a - b + UsizeMax + 1>>

\* usize a / b: division by zero panics in every build.
Div(a, b) == IF b = 0 THEN <<>> ELSE <<a \div b>>

\* impl Default for ChunkingOptions; ChunkingOptions::new()
DefaultOptions(cores) ==
    [enabled |-> FALSE, enabled_set |-> FALSE,
     max_parallel |-> IF cores = <<>> THEN 4 ELSE cores[1],
     strategy |-> "Source"]

\* ChunkingOptions::for_large_lists(): enabled is set to true by the constructor.
ForLargeListsOptions(cores) ==
    [enabled |-> TRUE, enabled_set |-> TRUE,
     max_parallel |-> Max(2, IF cores = <<>> THEN 4 ELSE cores[1]),
     strategy |-> "Source"]

\* should_enable_chunking(config, options); opt is <<>> for None, <<o>> for Some(&o).
ShouldEnableChunking(sources, opt) ==
    IF sources = <<>> THEN FALSE
    ELSE IF opt # <<>> /\ ~opt[1].enabled THEN FALSE
    ELSE IF opt # <<>> /\ opt[1].enabled THEN TRUE
    ELSE LET strategy == IF opt # <<>> THEN opt[1].strategy ELSE "Source"
         IN  strategy = "Source" /\ Len(sources) > 1

\* Mutant of ChunkSources: every chunk but the first starts one source late.
ChunkSourcesSkipping(sources, i, sources_per_chunk) ==
    LET start_idx == i * sources_per_chunk + (IF i > 0 THEN 1 ELSE 0)
        end_idx == Min(i * sources_per_chunk + sources_per_chunk, Len(sources))
    IN  SubSeq(sources, start_idx + 1, end_idx)

\* sources[start_idx..end_idx].to_vec() of loop iteration i.
ChunkSources(sources, i, sources_per_chunk) ==
    LET start_idx == i * sources_per_chunk
        end_idx == Min(start_idx + sources_per_chunk, Len(sources))
    IN  SubSeq(sources, start_idx + 1, end_idx)

\* sources_per_chunk = max(1, (n + p - 1) / p): <<"Ok", v>> or <<"Panic", why>>.
SourcesPerChunk(n, p, prof) ==
    LET a == Add(n, p, prof)
        b == IF a = <<>> THEN <<>> ELSE Sub(a[1], 1, prof)
        d == IF b = <<>> THEN <<>> ELSE Div(b[1], p)
    IN  IF a = <<>> THEN <<"Panic", "attempt to add with overflow">>
        ELSE IF b = <<>> THEN <<"Panic", "attempt to subtract with overflow">>
        ELSE IF d = <<>> THEN <<"Panic", "attempt to divide by zero">>
        ELSE <<"Ok", Max(1, d[1])>>

\* Mutant of ChunkIndex: the 1-based number of the chunk's name as its index.
ChunkIndexOneBased(i) == i + 1

\* ChunkMetadata.index of loop iteration i.
ChunkIndex(i) == i

\* split_by_source: <<"Ok", chunks>> or <<"Panic", why>>; a chunk is the pair
\* (chunk_config, metadata), of the config its name suffix and its sources.
SplitBySource(sources, opts, prof) ==
    LET n == Len(sources)
        spc == SourcesPerChunk(n, opts.max_parallel, prof)
    IN  IF spc[1] = "Panic" THEN spc
        ELSE LET sources_per_chunk == spc[2]
                 a == Add(n, sources_per_chunk, prof)
                 b == IF a = <<>> THEN <<>> ELSE Sub(a[1], 1, prof)
             IN  IF a = <<>> THEN <<"Panic", "attempt to add with overflow">>
                 ELSE IF b = <<>> THEN <<"Panic", "attempt to subtract with overflow">>
                 ELSE LET total_chunks == b[1] \div sources_per_chunk
                      IN  <<"Ok",
                            [k \in 1..total_chunks |->
                               LET i == k - 1
                                   chunk_sources == ChunkSources(sources, i, sources_per_chunk)
                               IN  [config |-> [name |-> <<"chunk", i + 1, total_chunks>>,
                                                sources |-> chunk_sources],
                                    metadata |-> [sources |-> chunk_sources]
                                                 @@ PlannedMetadata(ChunkIndex(i), total_chunks)]]>>

\* Mutant of SplitIntoChunks: LineCount, being unimplemented, plans nothing.
SplitIntoChunksLineCountEmpty(sources, opts, prof) ==
    IF sources = <<>> THEN <<"Ok", <<>>>>
    ELSE CASE opts.strategy = "Source" -> SplitBySource(sources, opts, prof)
           [] opts.strategy = "LineCount" -> <<"Ok", <<>>>>

\* split_into_chunks: LineCount falls back to split_by_source.
SplitIntoChunks(sources, opts, prof) ==
    IF sources = <<>> THEN <<"Ok", <<>>>>
    ELSE CASE opts.strategy = "Source" -> SplitBySource(sources, opts, prof)
           [] opts.strategy = "LineCount" -> SplitBySource(sources, opts, prof)

\* The jobs: n distinct sources in a fixed order.
Jobs == {[k \in 1..n |-> <<"source", k>>] : n \in 0..MaxSources}

\* ChunkingOptions::new() / ChunkingOptions::default()
NewOptions(cores) ==
    /\ options' = DefaultOptions(cores)
    /\ enable_ret' = <<>>
    /\ plan_ret' = <<>>
    /\ UNCHANGED <<job, profile>>

\* ChunkingOptions::for_large_lists()
ForLargeLists(cores) ==
    /\ options' = ForLargeListsOptions(cores)
    /\ enable_ret' = <<>>
    /\ plan_ret' = <<>>
    /\ UNCHANGED <<job, profile>>

\* with_enabled(enabled), or the assignment options.enabled = enabled.
WithEnabled(enabled) ==
    /\ options' = [options EXCEPT !.enabled = enabled, !.enabled_set = TRUE]
    /\ enable_ret' = <<>>
    /\ plan_ret' = <<>>
    /\ UNCHANGED <<job, profile>>

\* with_max_parallel(max_parallel), or the assignment to the pub field: any usize.
WithMaxParallel(v) ==
    /\ options' = [options EXCEPT !.max_parallel = v]
    /\ enable_ret' = <<>>
    /\ plan_ret' = <<>>
    /\ UNCHANGED <<job, profile>>

\* with_strategy(strategy), or the assignment to the pub field.
WithStrategy(strategy) ==
    /\ options' = [options EXCEPT !.strategy = strategy]
    /\ enable_ret' = <<>>
    /\ plan_ret' = <<>>
    /\ UNCHANGED <<job, profile>>

\* should_enable_chunking(&config, None) or (&config, Some(&options))
CallShouldEnable(with_options) ==
    LET opt == IF with_options THEN <<options>> ELSE <<>>
    IN  /\ enable_ret' = <<opt, ShouldEnableChunking(job, opt)>>
        /\ UNCHANGED <<job, options, profile, plan_ret>>

\* split_into_chunks(&config, &options)
CallSplit ==
    /\ plan_ret' = SplitIntoChunks(job, options, profile)
    /\ UNCHANGED <<job, options, profile, enable_ret>>

PlanInit ==
    /\ ExecIdle
    /\ DispatcherIdle
    /\ vargs = DefaultValidationArgs
    /\ LocksIdle
    /\ MergeIdle
    /\ SpeedIdle
    /\ ValidationIdle
    /\ job \in Jobs
    /\ options \in {DefaultOptions(cores) : cores \in AvailableParallelism}
    /\ profile \in {"debug", "release"}
    /\ enable_ret = <<>>
    /\ plan_ret = <<>>

PlanNext ==
    \/ (\E cores \in AvailableParallelism : NewOptions(cores))
          /\ UNCHANGED <<execVars, dispVars, vargs, lockVars, mergeVars, speedVars, valVars>>
    \/ (\E cores \in AvailableParallelism : ForLargeLists(cores))
          /\ UNCHANGED <<execVars, dispVars, vargs, lockVars, mergeVars, speedVars, valVars>>
    \/ (\E enabled \in BOOLEAN : WithEnabled(enabled))
          /\ UNCHANGED <<execVars, dispVars, vargs, lockVars, mergeVars, speedVars, valVars>>
    \/ (\E v \in 0..UsizeMax : WithMaxParallel(v))
          /\ UNCHANGED <<execVars, dispVars, vargs, lockVars, mergeVars, speedVars, valVars>>
    \/ (\E strategy \in ChunkingStrategy : WithStrategy(strategy))
          /\ UNCHANGED <<execVars, dispVars, vargs, lockVars, mergeVars, speedVars, valVars>>
    \/ (\E with_options \in BOOLEAN : CallShouldEnable(with_options))
          /\ UNCHANGED <<execVars, dispVars, vargs, lockVars, mergeVars, speedVars, valVars>>
    \/ CallSplit /\ UNCHANGED <<execVars, dispVars, vargs, lockVars, mergeVars, speedVars, valVars>>

\* A job, the ChunkingOptions built for it and the planning calls made with them.
PlanSpec == PlanInit /\ [][PlanNext]_vars

\* ------------------------------------------------------- planning claims

\* ceil(a / b) for b >= 1, over the integers.
Ceil(a, b) == (a + b - 1) \div b

\* The plan has ceil(n / ceil(n/p)) chunks, at most p, each of ceil(n/p)
\* sources but the last, which has the remainder, at least one.
BalancedPlan(plan, n, p) ==
    LET per == Ceil(n, p)
    IN  /\ Len(plan) = Ceil(n, per)
        /\ Len(plan) <= p
        /\ \A k \in 1..(Len(plan) - 1) : Len(plan[k].config.sources) = per
        /\ Len(plan[Len(plan)].config.sources) = n - (Len(plan) - 1) * per
        /\ Len(plan[Len(plan)].config.sources) >= 1

\* C22: for every job of n >= 1 sources and max_parallel = p >= 1,
\* split_into_chunks returns exactly ceil(n / ceil(n/p)) chunks, never more
\* than p, each holding ceil(n/p) sources except possibly the last, which
\* holds the remainder and at least one source.
C22_BalancedChunks ==
    (plan_ret # <<>> /\ Len(job) >= 1 /\ options.max_parallel >= 1) =>
        /\ plan_ret[1] = "Ok"
        /\ BalancedPlan(plan_ret[2], Len(job), options.max_parallel)

\* What holds of C22's statement: it holds whenever the call returns, and it
\* always returns in a build without overflow checks, where the wrapped sum
\* divided by p is 0 and max(1, 0) = ceil(n/p).
BalancedWhenReturned ==
    /\ profile = "release" => C22_BalancedChunks
    /\ (plan_ret # <<>> /\ plan_ret[1] = "Ok" /\ Len(job) >= 1
            /\ options.max_parallel >= 1) =>
          BalancedPlan(plan_ret[2], Len(job), options.max_parallel)

\* The sources of the chunks of a plan, concatenated in chunk order.
RECURSIVE PlanSources(_)
PlanSources(plan) ==
    IF plan = <<>> THEN <<>>
    ELSE Head(plan).config.sources \o PlanSources(Tail(plan))

\* The chunks of a returned plan hold job.sources contiguously and in order, and
\* each metadata lists its sub-job's sources.
ContiguousPartition ==
    (plan_ret # <<>> /\ plan_ret[1] = "Ok") =>
        /\ PlanSources(plan_ret[2]) = job
        /\ \A k \in DOMAIN plan_ret[2] :
              plan_ret[2][k].metadata.sources = plan_ret[2][k].config.sources

\* C23: concatenating the chunks' source lists in chunk index order gives
\* exactly job.sources (every source in exactly one chunk, no reordering), each
\* chunk's metadata.sources equals its sub-job's sources, and the input job is
\* not modified.
C23_ContiguousInOrder == []ContiguousPartition /\ [][job' = job]_vars

C23_Witness ==
    /\ plan_ret # <<>>
    /\ plan_ret[1] = "Ok"
    /\ Len(job) = 3
    /\ Len(plan_ret[2]) = 2
    /\ Len(plan_ret[2][2].config.sources) = 1

\* C25: should_enable_chunking is false for a job with no sources whatever the
\* options; otherwise it is options.enabled when enabled was explicitly set;
\* otherwise, with default options and the Source strategy, it is true exactly
\* when the job has more than one source.
C25_ShouldChunkReference ==
    enable_ret # <<>> =>
        LET opt == enable_ret[1]
            value == enable_ret[2]
            strategy == IF opt = <<>> THEN "Source" ELSE opt[1].strategy
        IN  /\ job = <<>> => ~value
            /\ (job # <<>> /\ opt # <<>> /\ opt[1].enabled_set) =>
                  value = opt[1].enabled
            /\ (job # <<>> /\ ~(opt # <<>> /\ opt[1].enabled_set)
                    /\ strategy = "Source") =>
                  value = (Len(job) > 1)

\* What holds of C25's statement: the reference holds when no options are
\* passed, and with options the result is options.enabled, set or not.
ShouldChunkAsCoded ==
    enable_ret # <<>> =>
        /\ enable_ret[1] = <<>> => enable_ret[2] = (Len(job) > 1)
        /\ enable_ret[1] # <<>> =>
              enable_ret[2] = (job # <<>> /\ enable_ret[1][1].enabled)

\* C30: every ChunkingOptions value built through the public API and passed to
\* the planner has max_parallel >= 1, so planning never divides by zero.
C30_MaxParallelAtLeastOne ==
    /\ options.max_parallel >= 1
    /\ plan_ret # <<"Panic", "attempt to divide by zero">>

\* ------------------------------------------- planning, then compilation

\* compile_chunks_async(chunks, &options, debug) is called with the chunks
\* split_into_chunks returned and options of max_parallel mp.
CallCompile(mp, which) ==
    /\ pc = "none"
    /\ plan_ret # <<>>
    /\ plan_ret[1] = "Ok"
    /\ chunks' = [k \in DOMAIN plan_ret[2] |-> plan_ret[2][k].metadata]
    /\ max_parallel' = mp
    /\ path_has' = which
    /\ pc' = "loop"
    /\ batch_start' = 0
    /\ task' = [k \in DOMAIN plan_ret[2] |-> IdleTask(plan_ret[2][k].metadata)]
    /\ result' = DefaultResult
    /\ chunk_results' = <<>>
    /\ merge_input' = <<>>
    /\ finished' = <<>>
    /\ started' = [k \in DOMAIN plan_ret[2] |-> 0]
    /\ raised' = <<>>
    /\ ret' = <<>>

\* A job and options with 1 <= max_parallel <= MaxChunks, nothing called yet.
PipelineInit ==
    /\ chunks = <<>>
    /\ max_parallel = 1
    /\ path_has = {}
    /\ pc = "none"
    /\ batch_start = 0
    /\ task = <<>>
    /\ result = DefaultResult
    /\ chunk_results = <<>>
    /\ merge_input = <<>>
    /\ finished = <<>>
    /\ started = <<>>
    /\ raised = <<>>
    /\ ret = <<>>
    /\ DispatcherIdle
    /\ vargs = DefaultValidationArgs
    /\ LocksIdle
    /\ MergeIdle
    /\ SpeedIdle
    /\ ValidationIdle
    /\ job \in Jobs
    /\ \E p \in 1..MaxChunks :
          options = [DefaultOptions(<<>>) EXCEPT !.max_parallel = p]
    /\ profile = "release"
    /\ enable_ret = <<>>
    /\ plan_ret = <<>>

PipelineNext ==
    \/ CallSplit /\ UNCHANGED <<execVars, dispVars, vargs, lockVars, mergeVars, speedVars, valVars>>
    \/ (\E mp \in 1..MaxWorkers, which \in {{}, {"hostlist-compiler"}} :
            CallCompile(mp, which))
          /\ UNCHANGED <<dispVars, vargs, lockVars, planVars, mergeVars, speedVars, valVars>>
    \/ StartBatch /\ UNCHANGED <<dispVars, vargs, lockVars, planVars, mergeVars, speedVars, valVars>>
    \/ (\E i \in DOMAIN task : WriteDone(i))
          /\ UNCHANGED <<dispVars, vargs, lockVars, planVars, mergeVars, speedVars, valVars>>
    \/ (\E i \in DOMAIN task : ProcessExit(i))
          /\ UNCHANGED <<dispVars, vargs, lockVars, planVars, mergeVars, speedVars, valVars>>
    \/ (\E i \in DOMAIN task : ExistsDone(i))
          /\ UNCHANGED <<dispVars, vargs, lockVars, planVars, mergeVars, speedVars, valVars>>
    \/ (\E i \in DOMAIN task : ReadDone(i))
          /\ UNCHANGED <<dispVars, vargs, lockVars, planVars, mergeVars, speedVars, valVars>>
    \/ JoinAll /\ UNCHANGED <<dispVars, vargs, lockVars, planVars, mergeVars, speedVars, valVars>>
    \/ Finish /\ UNCHANGED <<dispVars, vargs, lockVars, planVars, mergeVars, speedVars, valVars>>

\* split_into_chunks, then compile_chunks_async on its result.
PipelineSpec == PipelineInit /\ [][PipelineNext]_vars

\* The chunk indices of ms are pairwise distinct and within 0..total-1, and
\* every total is total.
IndicesWellFormed(ms, total) ==
    /\ \A k \in DOMAIN ms : 0 <= ms[k].index /\ ms[k].index < ms[k].total
                            /\ ms[k].total = total
    /\ \A j \in DOMAIN ms, k \in DOMAIN ms : j # k => ms[j].index # ms[k].index

\* C24: in every plan split_into_chunks returns and in result.chunks of every
\* compile_chunks_async result the chunk indices are pairwise distinct, satisfy
\* 0 <= index < total, and total is the number of planned chunks.
C24_IndicesWellFormed ==
    /\ (plan_ret # <<>> /\ plan_ret[1] = "Ok") =>
          IndicesWellFormed([k \in DOMAIN plan_ret[2] |-> plan_ret[2][k].metadata],
                            Len(plan_ret[2]))
    /\ pc # "none" => IndicesWellFormed(result.chunks, Len(plan_ret[2]))

C24_Witness ==
    /\ pc = "done"
    /\ Len(plan_ret[2]) = 3
    /\ Len(result.chunks) = 3
    /\ ~result.success

\* ====================================================== merge_chunks calls

\* Largest number of chunk outputs handed to merge_chunks.
MaxMergeChunks == 2

\* Largest number of lines in all chunk outputs together.
MaxMergeLines == 4

\* The lines of chunk outputs: two rules, a rule with trailing white space, a
\* comment, an indented '#' comment and the empty line.
MergeLines ==
    { <<"a">>, <<"a", " ">>, <<"b">>, <<"!", "c">>, <<" ", "#">>, <<>> }

\* The caller pushes an empty Vec<String> to chunk_results.
PushChunk ==
    /\ Len(m_in) < MaxMergeChunks
    /\ m_in' = Append(m_in, <<>>)
    /\ m_out' = <<>>

\* The caller pushes a line to the last chunk output.
PushLine(line) ==
    /\ m_in # <<>>
    /\ SumLen(m_in) < MaxMergeLines
    /\ m_in' = [m_in EXCEPT ![Len(m_in)] = Append(@, line)]
    /\ m_out' = <<>>

\* merge_chunks(&chunk_results)
CallMerge ==
    /\ m_out' = <<MergeChunks(m_in)>>
    /\ UNCHANGED m_in

\* merge_chunks(&[merged]) on the list the last call returned.
CallMergeAgain ==
    /\ m_out # <<>>
    /\ m_in' = <<m_out[1].rules>>
    /\ m_out' = <<MergeChunks(<<m_out[1].rules>>)>>

MergeInit ==
    /\ ExecIdle
    /\ DispatcherIdle
    /\ vargs = DefaultValidationArgs
    /\ LocksIdle
    /\ PlanIdle
    /\ m_in = <<>>
    /\ m_out = <<>>
    /\ SpeedIdle
    /\ ValidationIdle

MergeNext ==
    \/ PushChunk /\ UNCHANGED <<execVars, dispVars, vargs, lockVars, planVars, speedVars, valVars>>
    \/ (\E line \in MergeLines : PushLine(line))
          /\ UNCHANGED <<execVars, dispVars, vargs, lockVars, planVars, speedVars, valVars>>
    \/ CallMerge /\ UNCHANGED <<execVars, dispVars, vargs, lockVars, planVars, speedVars, valVars>>
    \/ CallMergeAgain /\ UNCHANGED <<execVars, dispVars, vargs, lockVars, planVars, speedVars, valVars>>

\* Chunk outputs and the merge_chunks calls made on them.
MergeSpec == MergeInit /\ [][MergeNext]_vars

\* ------------------------------------------------------------ merge claims

\* A comment or blank line: empty after trimming, or starting with '!' or '#'.
IsCommentOrBlank(line) ==
    LET t == Trim(line) IN t = <<>> \/ t[1] \in {"!", "#"}

\* How many times line occurs in lines.
Count(lines, line) == Cardinality({k \in DOMAIN lines : lines[k] = line})

\* The lines of all at the positions that are a comment or blank line or the
\* first occurrence of their raw text, in order.
RECURSIVE FirstOccurrences(_, _)
FirstOccurrences(all, j) ==
    IF j > Len(all) THEN <<>>
    ELSE (IF IsCommentOrBlank(all[j]) \/ \A i \in 1..(j - 1) : all[i] # all[j]
          THEN <<all[j]>> ELSE <<>>) \o FirstOccurrences(all, j + 1)

\* C26: the merged list is the concatenation of the chunk outputs in chunk
\* order with every later occurrence of a rule removed: a subsequence in which
\* every non-comment non-blank line of the input occurs exactly once, at its
\* first occurrence, lines being compared by their raw untrimmed text.
C26_FirstSeenDedup ==
    m_out # <<>> =>
        LET all == Flatten(m_in)
            merged == m_out[1].rules
        IN  /\ merged = FirstOccurrences(all, 1)
            /\ \A k \in DOMAIN all :
                  ~IsCommentOrBlank(all[k]) => Count(merged, all[k]) = 1

C26_Witness ==
    /\ m_in = << << <<"a">>, <<"b">> >>, << <<"a">>, <<"a", " ">> >> >>
    /\ m_out = <<[rules |-> << <<"a">>, <<"b">>, <<"a", " ">> >>,
                  duplicates_removed |-> 1]>>

\* The rules (non-comment non-blank lines) of all are pairwise distinct.
DistinctRules(all) ==
    \A j \in DOMAIN all, k \in DOMAIN all :
        (j # k /\ ~IsCommentOrBlank(all[j])) => all[j] # all[k]

\* C27: every comment or blank line appears in the merged output as many times
\* as in the input, so an input of such lines plus pairwise distinct rules is
\* returned unchanged with duplicates_removed = 0.
C27_StructuralLinesKept ==
    m_out # <<>> =>
        LET all == Flatten(m_in)
            merged == m_out[1].rules
        IN  /\ \A k \in DOMAIN all :
                  IsCommentOrBlank(all[k]) => Count(merged, all[k]) = Count(all, all[k])
            /\ DistinctRules(all) =>
                  merged = all /\ m_out[1].duplicates_removed = 0

C27_Witness ==
    /\ m_in = << << <<"!", "c">>, <<"a">> >>, << <<"!", "c">>, <<" ", "#">> >> >>
    /\ m_out # <<>>
    /\ Len(m_out[1].rules) = 4
    /\ m_out[1].duplicates_removed = 0

\* C28: re-merging the output of merge_chunks returns it unchanged with no
\* duplicate removed: merge_chunks([m]) = (m, 0) for merge_chunks(x) = (m, d).
C28_MergeIdempotent ==
    m_out # <<>> =>
        MergeChunks(<<m_out[1].rules>>) =
            [rules |-> m_out[1].rules, duplicates_removed |-> 0]

C28_Witness ==
    /\ m_out # <<>>
    /\ m_in = <<m_out[1].rules>>
    /\ Len(m_out[1].rules) = 3
    /\ m_out[1].duplicates_removed = 0
    /\ \E k \in 1..3 : IsCommentOrBlank(m_out[1].rules[k])

\* C29: duplicates_removed is the sum of the lengths of all chunk outputs
\* minus the length of the merged list, never negative, and in every result of
\* compile_chunks_async final_rule_count + duplicates_removed = total_rules,
\* total_rules being the sum of actual_rules over result.chunks.
C29_DuplicateAccounting ==
    pc = "done" =>
        /\ result.duplicates_removed >= 0
        /\ result.total_rules = SumActualRules(result.chunks)
        /\ result.final_rule_count + result.duplicates_removed = result.total_rules
        /\ result.merged_rules # <<>> =>
              result.duplicates_removed =
                  SumLen(OutputsFrom(1)) - Len(result.merged_rules[1])

\* C29 witness: a returned result of two chunks' outputs with a duplicate
\* removed and a chunk that failed.
C29_Witness ==
    /\ pc = "done"
    /\ result.duplicates_removed >= 1
    /\ result.final_rule_count >= 2
    /\ result.total_rules = result.final_rule_count + result.duplicates_removed
    /\ \E k \in DOMAIN result.chunks : ~result.chunks[k].success

\* ------------------------------------------------------ temp file claims

FileExists(path) ==
    \E i \in DOMAIN task : TempOutputPath(i) = path /\ task[i].output_file # <<>>

\* C39 as stated: for every chunk reported as successful, the recorded
\* output_path names a file that still exists when compile_chunks_async
\* returns.
C39_OutputPathExists ==
    pc = "done" =>
        \A k \in DOMAIN result.chunks :
            result.chunks[k].success =>
                /\ result.chunks[k].output_path # <<>>
                /\ FileExists(result.chunks[k].output_path[1])

\* What the code does instead: the recorded output_path is the chunk's own
\* temporary output path, and no file exists at it at the return.
OutputPathRemovedAtReturn ==
    pc = "done" =>
        \A k \in DOMAIN result.chunks :
            result.chunks[k].success =>
                /\ result.chunks[k].output_path =
                       <<TempOutputPath(result.chunks[k].index + 1)>>
                /\ ~FileExists(result.chunks[k].output_path[1])

\* ------------------------------------------ dispatcher claims, continued

\* raise_validation was entered and no handler has been called yet.
ValidationEntered ==
    /\ d_stage = "Validation"
    /\ d_pc = "running"
    /\ d_invoked = <<>>

\* C36: raise_validation tests abort only after a handler call, never before
\* the first: entered with abort already true and a handler registered, the
\* first handler is invoked and observes abort = true; it is the only one
\* invoked when it leaves abort true, and when it resets abort to false the
\* dispatch continues with the next handler.
C36_FlagTestedAfterCall ==
    /\ [](d_stage = "Validation" /\ handlers # <<>> =>
            /\ d_pc = "returned" => Len(d_invoked) >= 1
            /\ (Len(d_flags) >= 1 /\ d_flags[1]) => d_invoked = <<handlers[1].id>>
            /\ (d_pc = "returned" /\ Len(d_flags) >= 1 /\ ~d_flags[1]
                  /\ Len(handlers) >= 2) =>
                  (Len(d_invoked) >= 2 /\ d_invoked[2] = handlers[2].id))
    /\ [][(ValidationEntered /\ handlers # <<>> /\ d_args.flag) =>
            /\ d_in' = handlers[1].id
            /\ d_invoked' = <<handlers[1].id>>
            /\ d_args'.flag]_vars

\* C36 witness: raise_validation has returned after invoking only the first
\* of three handlers, which does not write abort and left it true: abort was
\* true at the entry.
C36_Witness ==
    /\ d_pc = "returned"
    /\ d_stage = "Validation"
    /\ Len(handlers) = 3
    /\ handlers[1].does = "keep"
    /\ d_flags = <<TRUE>>
    /\ d_invoked = <<1>>

\* The stages whose raise_* function has no test of a flag.
StagesWithoutBreak ==
    {"ConfigurationLoaded", "SourceLoaded", "FileLockAcquired", "FileLockReleased",
     "FileLockFailed", "ChunkCompleted", "ChunksMerging", "ChunksMerged",
     "CompilationCompleted", "CompilationError"}

\* C37: raise_file_lock_failed, raise_compilation_error and all stages with
\* read-only args invoke every registered handler exactly once in registration
\* order, whatever earlier handlers wrote into continue_without_lock or handled.
C37_NoFlagStagesReachAll ==
    d_stage \in StagesWithoutBreak =>
        /\ InvokedIsPrefix
        /\ d_pc = "returned" =>
              d_invoked = [k \in 1..Len(handlers) |-> handlers[k].id]

\* C37 witness: raise_compilation_error returned after three handlers, the
\* first of which set handled.
C37_Witness ==
    /\ d_pc = "returned"
    /\ d_stage \in {"FileLockFailed", "CompilationError"}
    /\ Len(handlers) = 3
    /\ d_flags = <<TRUE, TRUE, FALSE>>
    /\ d_invoked = <<1, 2, 3>>

\* ------------------------------------------------ file lock claims, continued

\* C38: whenever acquire_lock returns an error (path cannot be canonicalized
\* or opened, lock conflict, hash computation failure after locking) the lock
\* table has the same entries as before the call and no open file or OS lock
\* obtained during the call remains.
C38_FailedAcquireChangesNothing ==
    [][\A call \in AcquireCalls, file_path \in Paths, compute_hash \in BOOLEAN,
          io \in {"ok", "open_fails", "hash_fails"} :
            (/\ Acquire(call, file_path, compute_hash, io)
             /\ last_acquire'[1].result \in {"Err", "None"}) =>
                /\ active_locks' = active_locks
                /\ fds' = fds
                /\ lock_handles' = lock_handles]_vars

\* C38 witness: a call failed on a lock conflict with a lock that is still
\* held and tracked.
C38_Witness ==
    /\ platform = "unix"
    /\ last_acquire # <<>>
    /\ last_acquire[1].conflict
    /\ last_acquire[1].result = "Err"
    /\ Cardinality(DOMAIN active_locks) = 1
    /\ Cardinality(DOMAIN fds) = 1
    /\ \A fd \in DOMAIN fds : fds[fd].lock = "LOCK_EX"

\* ------------------------------------------- planning claims, continued

\* C35: for every job and every options value, split_into_chunks with
\* strategy = LineCount returns exactly what it returns with strategy =
\* Source: the same sub-jobs and metadata.
C35_LineCountFallsBack ==
    plan_ret # <<>> =>
        plan_ret = SplitIntoChunks(job, [options EXCEPT !.strategy = "Source"], profile)

\* C35 witness: a LineCount plan of several chunks was returned.
C35_Witness ==
    /\ options.strategy = "LineCount"
    /\ plan_ret # <<>>
    /\ plan_ret[1] = "Ok"
    /\ Len(plan_ret[2]) >= 2
    /\ Len(job) = 3

\* ===================================================== estimated_speedup

\* Largest number of chunks of a result whose speedup is estimated.
MaxSpeedChunks == 3
\* Largest elapsed time, in milliseconds.
MaxElapsed == 3

\* ChunkMetadata.elapsed_ms: None, or Some(ms).
ElapsedValues == {<<>>} \cup {<<ms>> : ms \in {0, 2, MaxElapsed}}

\* self.chunks.iter().filter_map(|c| c.elapsed_ms).sum()
RECURSIVE TotalChunkTime(_)
TotalChunkTime(cs) ==
    IF cs = <<>> THEN 0
    ELSE (IF Head(cs).elapsed_ms = <<>> THEN 0 ELSE Head(cs).elapsed_ms[1])
         + TotalChunkTime(Tail(cs))

\* The f64 value n / d of two integers that f64 holds exactly, as a ratio.
Ratio(n, d) == [num |-> n, den |-> d]

\* Mutant of EstimatedSpeedup: total_elapsed_ms = 0 is not tested.
EstimatedSpeedupNoZeroGuard(r) ==
    IF r.chunks = <<>> THEN Ratio(1, 1)
    ELSE Ratio(TotalChunkTime(r.chunks), r.total_elapsed_ms)

\* ChunkedCompilationResult::estimated_speedup
EstimatedSpeedup(r) ==
    IF r.chunks = <<>> \/ r.total_elapsed_ms = 0 THEN Ratio(1, 1)
    ELSE Ratio(TotalChunkTime(r.chunks), r.total_elapsed_ms)

\* A chunk's metadata with elapsed_ms = e is pushed to result.chunks.
PushElapsed(e) ==
    /\ Len(sp_result.chunks) < MaxSpeedChunks
    /\ sp_result' = [sp_result EXCEPT !.chunks = Append(@, [elapsed_ms |-> e])]
    /\ sp_ret' = <<>>

\* result.total_elapsed_ms = t
SetTotalElapsed(t) ==
    /\ sp_result' = [sp_result EXCEPT !.total_elapsed_ms = t]
    /\ sp_ret' = <<>>

\* result.estimated_speedup()
CallEstimatedSpeedup ==
    /\ sp_ret' = <<EstimatedSpeedup(sp_result)>>
    /\ UNCHANGED sp_result

SpeedInit ==
    /\ ExecIdle
    /\ DispatcherIdle
    /\ vargs = DefaultValidationArgs
    /\ LocksIdle
    /\ PlanIdle
    /\ MergeIdle
    /\ SpeedIdle
    /\ ValidationIdle

SpeedNext ==
    \/ (\E e \in ElapsedValues : PushElapsed(e))
          /\ UNCHANGED <<execVars, dispVars, vargs, lockVars, planVars, mergeVars, valVars>>
    \/ (\E t \in 0..MaxElapsed : SetTotalElapsed(t))
          /\ UNCHANGED <<execVars, dispVars, vargs, lockVars, planVars, mergeVars, valVars>>
    \/ CallEstimatedSpeedup
          /\ UNCHANGED <<execVars, dispVars, vargs, lockVars, planVars, mergeVars, valVars>>

\* A ChunkedCompilationResult being filled in and the estimated_speedup calls on it.
SpeedSpec == SpeedInit /\ [][SpeedNext]_vars

\* The sum of the elapsed_ms of the chunks that have one.
SumElapsed(cs) ==
    LET RECURSIVE Upto(_)
        Upto(k) == IF k = 0 THEN 0
                   ELSE Upto(k - 1) + (IF cs[k].elapsed_ms = <<>> THEN 0
                                       ELSE cs[k].elapsed_ms[1])
    IN  Upto(Len(cs))

\* C33: estimated_speedup returns exactly 1.0 when there are no chunks or
\* total_elapsed_ms is 0, and otherwise the ratio of the sum of the chunks'
\* elapsed_ms to total_elapsed_ms.
C33_EstimatedSpeedup ==
    sp_ret # <<>> =>
        IF sp_result.chunks = <<>> \/ sp_result.total_elapsed_ms = 0
        THEN sp_ret[1] = Ratio(1, 1)
        ELSE /\ sp_ret[1].den # 0
             /\ sp_ret[1].num * sp_result.total_elapsed_ms
                    = SumElapsed(sp_result.chunks) * sp_ret[1].den

\* C33 witness: three chunks, one without elapsed_ms, whose times sum to 5 ms
\* over a wall time of 2 ms: the speedup returned is 5/2.
C33_Witness ==
    /\ sp_ret = <<Ratio(5, 2)>>
    /\ Len(sp_result.chunks) = 3
    /\ \E k \in 1..3 : sp_result.chunks[k].elapsed_ms = <<>>

\* ================================================ adguard-validation-core

\* The input files of the model.
InputFiles == {"a.txt", "b.txt"}

\* What an input file may hold: two lists of valid rules, and one with a line
\* of invalid syntax.
Contents == {"v1", "v2", "bad"}

\* enum VerificationMode
VerificationMode == {"Strict", "Warning", "Disabled"}

\* compute_hash: SHA-384 of the content, taken as free of collisions.
Hash(content) == <<"sha384", content>>

\* fs::metadata(path)?.len()
FileSize(content) == CASE content = "v1" -> 1 [] content = "v2" -> 2 [] OTHER -> 3

\* compute_file_hash: fs::read(path)? fails when there is no such file.
ComputeFileHash(fs, path) ==
    IF fs[path] = "missing" THEN <<"Err", "Io">> ELSE <<"Ok", Hash(fs[path])>>

\* HashEntry::new(hash, size); the timestamps are left out.
HashEntry(hash, size) == [hash |-> hash, size |-> size]

\* HashDatabase::insert: insert or replace the entry of key.
Insert(db, key, entry) ==
    [k \in DOMAIN db \cup {key} |-> IF k = key THEN entry ELSE db[k]]

\* Mutant of VerifyAndUpdate: strict mode reports the mismatch and stores the
\* new hash all the same.
VerifyAndUpdateStrictStores(fs, db, path, strict) ==
    LET actual_hash == ComputeFileHash(fs, path)
        entry == HashEntry(actual_hash[2], FileSize(fs[path]))
    IN  IF actual_hash[1] = "Err" THEN [result |-> actual_hash, db |-> db]
        ELSE IF path \in DOMAIN db
             THEN IF db[path].hash # actual_hash[2]
                  THEN IF strict
                       THEN [result |-> <<"Err", "HashMismatch">>,
                             db |-> Insert(db, path, entry)]
                       ELSE [result |-> <<"Ok", FALSE>>, db |-> Insert(db, path, entry)]
                  ELSE [result |-> <<"Ok", TRUE>>, db |-> db]
             ELSE [result |-> <<"Ok", TRUE>>, db |-> Insert(db, path, entry)]

\* verify_and_update(path, database, strict): the Result<bool> and the database
\* as the call leaves it.
VerifyAndUpdate(fs, db, path, strict) ==
    LET actual_hash == ComputeFileHash(fs, path)
        entry == HashEntry(actual_hash[2], FileSize(fs[path]))
    IN  IF actual_hash[1] = "Err" THEN [result |-> actual_hash, db |-> db]
        ELSE IF path \in DOMAIN db
             THEN IF db[path].hash # actual_hash[2]
                  THEN IF strict
                       THEN [result |-> <<"Err", "HashMismatch">>, db |-> db]
                       ELSE [result |-> <<"Ok", FALSE>>, db |-> Insert(db, path, entry)]
                  ELSE [result |-> <<"Ok", TRUE>>, db |-> db]
             ELSE [result |-> <<"Ok", TRUE>>, db |-> Insert(db, path, entry)]

\* validate_syntax: an unreadable file is an error; is_valid is false for a
\* content with an invalid line.
ValidateSyntax(fs, path) ==
    IF fs[path] = "missing" THEN <<"Err", "Io">>
    ELSE <<"Ok", [is_valid |-> fs[path] # "bad"]>>

\* matches!(self.config.hash_verification.mode, VerificationMode::Strict)
IsStrict(m) == m = "Strict"

\* Validator::validate_local_file: syntax, verify_and_update, then save of the
\* database (save_ok: whether the write succeeds).  Gives the result, the
\* validator's database and the database file after the call.
ValidateLocalFile(fs, db, dbf, m, path, save_ok) ==
    LET syntax_result == ValidateSyntax(fs, path)
        v == VerifyAndUpdate(fs, db, path, IsStrict(m))
    IN  IF syntax_result[1] = "Err"
        THEN [result |-> syntax_result, db |-> db, db_file |-> dbf]
        ELSE IF v.result[1] = "Err"
        THEN [result |-> v.result, db |-> v.db, db_file |-> dbf]
        ELSE IF ~save_ok
        THEN [result |-> <<"Err", "Io">>, db |-> v.db, db_file |-> dbf]
        ELSE [result |-> syntax_result, db |-> v.db, db_file |-> v.db]

\* The environment writes content to an input file, or removes the file.
WriteFile(path, content) ==
    /\ c_pc = "idle"
    /\ files' = [files EXCEPT ![path] = content]
    /\ v_ret' = <<>>
    /\ UNCHANGED <<verify_mode, hash_db, db_file, c_pc, c_input, c_k, c_meta,
                   c_log, out_file, c_ret>>

\* Validator::new(config): HashDatabase::load(..).unwrap_or_default()
NewValidator(load_ok) ==
    /\ c_pc = "idle"
    /\ hash_db' = IF load_ok THEN db_file ELSE EmptyDatabase
    /\ v_ret' = <<>>
    /\ UNCHANGED <<files, verify_mode, db_file, c_pc, c_input, c_k, c_meta,
                   c_log, out_file, c_ret>>

\* verify_and_update(path, &mut database, strict) on the caller's database.
CallVerifyAndUpdate(path, strict) ==
    /\ c_pc = "idle"
    /\ LET v == VerifyAndUpdate(files, hash_db, path, strict)
       IN  /\ hash_db' = v.db
           /\ v_ret' = <<[op |-> "verify_and_update", path |-> path,
                          result |-> v.result]>>
    /\ UNCHANGED <<files, verify_mode, db_file, c_pc, c_input, c_k, c_meta,
                   c_log, out_file, c_ret>>

\* validator.validate_local_file(path)
CallValidateLocalFile(path, save_ok) ==
    /\ c_pc = "idle"
    /\ LET v == ValidateLocalFile(files, hash_db, db_file, verify_mode, path, save_ok)
       IN  /\ hash_db' = v.db
           /\ db_file' = v.db_file
           /\ v_ret' = <<[op |-> "validate_local_file", path |-> path,
                          result |-> v.result]>>
    /\ UNCHANGED <<files, verify_mode, c_pc, c_input, c_k, c_meta, c_log,
                   out_file, c_ret>>

\* A Validator of some mode over input files that do not exist yet.
HashInit ==
    /\ ExecIdle
    /\ DispatcherIdle
    /\ vargs = DefaultValidationArgs
    /\ LocksIdle
    /\ PlanIdle
    /\ MergeIdle
    /\ SpeedIdle
    /\ files = [f \in InputFiles |-> "missing"]
    /\ verify_mode \in VerificationMode
    /\ hash_db = EmptyDatabase
    /\ db_file = EmptyDatabase
    /\ v_ret = <<>>
    /\ c_pc = "idle"
    /\ c_input = [local_files |-> <<>>, remote_urls |-> <<>>]
    /\ c_k = 0
    /\ c_meta = [local_files_validated |-> 0, remote_urls_validated |-> 0]
    /\ c_log = <<>>
    /\ out_file = <<>>
    /\ c_ret = <<>>

HashNext ==
    \/ (\E path \in InputFiles, content \in Contents \cup {"missing"} :
            WriteFile(path, content))
          /\ UNCHANGED <<execVars, dispVars, vargs, lockVars, planVars, mergeVars, speedVars>>
    \/ (\E load_ok \in BOOLEAN : NewValidator(load_ok))
          /\ UNCHANGED <<execVars, dispVars, vargs, lockVars, planVars, mergeVars, speedVars>>
    \/ (\E path \in InputFiles, strict \in BOOLEAN : CallVerifyAndUpdate(path, strict))
          /\ UNCHANGED <<execVars, dispVars, vargs, lockVars, planVars, mergeVars, speedVars>>
    \/ (\E path \in InputFiles, save_ok \in BOOLEAN : CallValidateLocalFile(path, save_ok))
          /\ UNCHANGED <<execVars, dispVars, vargs, lockVars, planVars, mergeVars, speedVars>>

\* Input files that change, a hash database and the verification calls on it.
HashSpec == HashInit /\ [][HashNext]_vars

\* ------------------------------------------------ hash integrity claims

\* The stored hash of path differs from the hash of the file as it is now.
StoredHashDiffers(path) ==
    /\ files[path] # "missing"
    /\ path \in DOMAIN hash_db
    /\ hash_db[path].hash # Hash(files[path])

\* path is a readable file with no entry in the database.
AbsentFromDatabase(path) ==
    /\ files[path] # "missing"
    /\ path \notin DOMAIN hash_db

\* After the step the database holds the current hash of path and every other
\* entry as before.
EntryReplaced(path) ==
    /\ DOMAIN hash_db' = DOMAIN hash_db \cup {path}
    /\ hash_db'[path].hash = Hash(files[path])
    /\ \A k \in DOMAIN hash_db \ {path} : hash_db'[k] = hash_db[k]

\* The step returned from a call of op.
Returned(op) == v_ret' # <<>> /\ v_ret'[1].op = op

MaxInputs == 2

\* The remote URLs of the model: an https URL, an http URL and a string that
\* Url::parse rejects.
Urls == {"https://lists.example/a.txt", "http://lists.example/a.txt", "no url"}

\* What the network does to a request: the content arrives and matches the
\* expected hash, the request fails, the status is not a success, or the
\* content does not match the expected hash.
Net == {"ok", "request_failed", "http_404", "hash_mismatch"}

\* validate_url(url, expected_hash)
ValidateUrl(url, net) ==
    CASE url = "no url" -> <<"Err", "UrlValidationFailed">>
      [] url = "http://lists.example/a.txt" -> <<"Ok", [is_valid |-> FALSE]>>
      [] net = "request_failed" -> <<"Err", "UrlValidationFailed">>
      [] net \in {"http_404", "hash_mismatch"} -> <<"Ok", [is_valid |-> FALSE]>>
      [] OTHER -> <<"Ok", [is_valid |-> TRUE]>>

\* All sequences over S of length at most n.
SeqUpTo(S, n) == UNION {[1..k -> S] : k \in 0..n}

\* The CompilationInput values of the model.
Inputs ==
    [local_files : SeqUpTo(InputFiles, MaxInputs), remote_urls : SeqUpTo(Urls, MaxInputs)]

\* Mutant of Accepted: a result that is Ok is accepted whatever its is_valid.
AcceptedIgnoresIsValid(r) == r[1] = "Ok"

\* Validation step r lets compile_with_validation go on: no `?` return and
\* no `if !..is_valid { return Err(..) }`.
Accepted(r) == r[1] = "Ok" /\ r[2].is_valid

\* The content compile_internal writes: a header and the readable local files.
RECURSIVE CompiledContent(_, _)
CompiledContent(fs, local_files) ==
    IF local_files = <<>> THEN <<"! Compiled filter list">>
    ELSE LET rest == CompiledContent(fs, SubSeq(local_files, 1, Len(local_files) - 1))
             last == local_files[Len(local_files)]
         IN  IF fs[last] = "missing" THEN rest ELSE Append(rest, fs[last])

\* The function's Err(e) and Ok(result); metadata is result.validation_metadata.
CompileErr(e) == [ok |-> FALSE, error |-> e, metadata |-> c_meta]
CompileOk == [ok |-> TRUE, error |-> "", metadata |-> c_meta]

\* compile_with_validation(input, options) is entered: Validator::new loads
\* the hash database, the counters start at 0.
CompileBegin(input, load_ok) ==
    /\ c_pc = "idle"
    /\ c_pc' = "local"
    /\ c_input' = input
    /\ c_k' = 1
    /\ hash_db' = IF load_ok THEN db_file ELSE EmptyDatabase
    /\ c_meta' = [local_files_validated |-> 0, remote_urls_validated |-> 0]
    /\ c_log' = <<>>
    /\ c_ret' = <<>>
    /\ UNCHANGED <<files, verify_mode, db_file, v_ret, out_file>>

\* STEP 1, one turn of the loop: validator.validate_local_file(file)?, then
\* the test of syntax_result.is_valid.
ValidateLocalStep(save_ok) ==
    /\ c_pc = "local"
    /\ c_k <= Len(c_input.local_files)
    /\ LET file == c_input.local_files[c_k]
           v == ValidateLocalFile(files, hash_db, db_file, verify_mode, file, save_ok)
       IN  /\ hash_db' = v.db
           /\ db_file' = v.db_file
           /\ c_log' = Append(c_log, [kind |-> "local", item |-> file, result |-> v.result])
           /\ IF Accepted(v.result)
              THEN /\ c_meta' = [c_meta EXCEPT !.local_files_validated = @ + 1]
                   /\ c_k' = c_k + 1
                   /\ UNCHANGED <<c_pc, c_ret>>
              ELSE /\ c_pc' = "done"
                   /\ c_ret' = <<CompileErr(IF v.result[1] = "Err" THEN v.result[2]
                                            ELSE "SyntaxValidationFailed")>>
                   /\ UNCHANGED <<c_meta, c_k>>
    /\ UNCHANGED <<files, verify_mode, v_ret, c_input, out_file>>

\* The loop over the local files is exhausted.
LocalsDone ==
    /\ c_pc = "local"
    /\ c_k > Len(c_input.local_files)
    /\ c_pc' = "remote"
    /\ c_k' = 1
    /\ UNCHANGED <<files, verify_mode, hash_db, db_file, v_ret, c_input, c_meta,
                   c_log, out_file, c_ret>>

\* STEP 2, one turn of the loop: validator.validate_remote_url(url, ..)?, then
\* the test of url_result.is_valid.
ValidateUrlStep(net) ==
    /\ c_pc = "remote"
    /\ c_k <= Len(c_input.remote_urls)
    /\ LET url == c_input.remote_urls[c_k]
           r == ValidateUrl(url, net)
       IN  /\ c_log' = Append(c_log, [kind |-> "remote", item |-> url, result |-> r])
           /\ IF Accepted(r)
              THEN /\ c_meta' = [c_meta EXCEPT !.remote_urls_validated = @ + 1]
                   /\ c_k' = c_k + 1
                   /\ UNCHANGED <<c_pc, c_ret>>
              ELSE /\ c_pc' = "done"
                   /\ c_ret' = <<CompileErr("UrlValidationFailed")>>
                   /\ UNCHANGED <<c_meta, c_k>>
    /\ UNCHANGED <<files, verify_mode, hash_db, db_file, v_ret, c_input, out_file>>

\* The loop over the remote URLs is exhausted.
UrlsDone ==
    /\ c_pc = "remote"
    /\ c_k > Len(c_input.remote_urls)
    /\ c_pc' = "compile"
    /\ UNCHANGED <<files, verify_mode, hash_db, db_file, v_ret, c_input, c_k,
                   c_meta, c_log, out_file, c_ret>>

\* STEP 3: compile_internal(&input, &options)? writes the output file.
CompileInternal(io_ok) ==
    /\ c_pc = "compile"
    /\ IF io_ok
       THEN /\ out_file' = <<CompiledContent(files, c_input.local_files)>>
            /\ c_pc' = "post"
            /\ UNCHANGED c_ret
       ELSE /\ c_pc' = "done"
            /\ c_ret' = <<CompileErr("Io")>>
            /\ UNCHANGED out_file
    /\ UNCHANGED <<files, verify_mode, hash_db, db_file, v_ret, c_input, c_k,
                   c_meta, c_log>>

\* STEPS 4 to 6 (output hash, rule count, archive) and the return.
CompileFinish(io_ok) ==
    /\ c_pc = "post"
    /\ c_pc' = "done"
    /\ c_ret' = <<IF io_ok THEN CompileOk ELSE CompileErr("Io")>>
    /\ UNCHANGED <<files, verify_mode, hash_db, db_file, v_ret, c_input, c_k,
                   c_meta, c_log, out_file>>

\* Input files as they are, a hash database file saved by an earlier run or
\* none, and no output file.
EnforceInit ==
    /\ ExecIdle
    /\ DispatcherIdle
    /\ vargs = DefaultValidationArgs
    /\ LocksIdle
    /\ PlanIdle
    /\ MergeIdle
    /\ SpeedIdle
    /\ files \in [InputFiles -> Contents \cup {"missing"}]
    /\ verify_mode \in VerificationMode
    /\ db_file \in {EmptyDatabase,
                    [f \in {"a.txt"} |-> HashEntry(Hash("v1"), FileSize("v1"))]}
    /\ hash_db = EmptyDatabase
    /\ v_ret = <<>>
    /\ c_pc = "idle"
    /\ c_input = [local_files |-> <<>>, remote_urls |-> <<>>]
    /\ c_k = 0
    /\ c_meta = [local_files_validated |-> 0, remote_urls_validated |-> 0]
    /\ c_log = <<>>
    /\ out_file = <<>>
    /\ c_ret = <<>>

EnforceNext ==
    \/ (\E input \in Inputs, load_ok \in BOOLEAN : CompileBegin(input, load_ok))
          /\ UNCHANGED <<execVars, dispVars, vargs, lockVars, planVars, mergeVars, speedVars>>
    \/ (\E save_ok \in BOOLEAN : ValidateLocalStep(save_ok))
          /\ UNCHANGED <<execVars, dispVars, vargs, lockVars, planVars, mergeVars, speedVars>>
    \/ LocalsDone
          /\ UNCHANGED <<execVars, dispVars, vargs, lockVars, planVars, mergeVars, speedVars>>
    \/ (\E net \in Net : ValidateUrlStep(net))
          /\ UNCHANGED <<execVars, dispVars, vargs, lockVars, planVars, mergeVars, speedVars>>
    \/ UrlsDone
          /\ UNCHANGED <<execVars, dispVars, vargs, lockVars, planVars, mergeVars, speedVars>>
    \/ (\E io_ok \in BOOLEAN : CompileInternal(io_ok))
          /\ UNCHANGED <<execVars, dispVars, vargs, lockVars, planVars, mergeVars, speedVars>>
    \/ (\E io_ok \in BOOLEAN : CompileFinish(io_ok))
          /\ UNCHANGED <<execVars, dispVars, vargs, lockVars, planVars, mergeVars, speedVars>>

\* One call of compile_with_validation.
EnforceSpec == EnforceInit /\ [][EnforceNext]_vars

\* ------------------------------------------- enforced validation claims

\* The validation calls a complete validation of the input makes: every local
\* file, then every remote URL, in input order.
ExpectedItems ==
    [k \in 1..Len(c_input.local_files) |->
        [kind |-> "local", item |-> c_input.local_files[k]]]
    \o [k \in 1..Len(c_input.remote_urls) |->
        [kind |-> "remote", item |-> c_input.remote_urls[k]]]

\* The validation calls made so far, without their results.
LoggedItems == [k \in 1..Len(c_log) |-> [kind |-> c_log[k].kind, item |-> c_log[k].item]]

\* The validation call returned Ok with is_valid = true.
ValidatedSuccessfully(e) == e.result[1] = "Ok" /\ e.result[2].is_valid

\* Every local file and every remote URL was validated successfully, in order.
AllValidated ==
    /\ LoggedItems = ExpectedItems
    /\ \A k \in DOMAIN c_log : ValidatedSuccessfully(c_log[k])

\* C32: compile_internal, which writes the output file, is reached only after
\* every local file and every remote URL of the input has been validated
\* successfully, in that order; if any validation fails the function returns
\* an error and no output is produced, and on success local_files_validated
\* and remote_urls_validated equal the numbers of input files and URLs.
C32_ValidationBeforeCompilation ==
    /\ [](/\ Len(c_log) <= Len(ExpectedItems)
          /\ LoggedItems = SubSeq(ExpectedItems, 1, Len(c_log))
          /\ (c_pc \in {"compile", "post"} \/ out_file # <<>>) => AllValidated
          /\ (\E k \in DOMAIN c_log : ~ValidatedSuccessfully(c_log[k])) =>
                /\ c_pc = "done"
                /\ ~c_ret[1].ok
                /\ out_file = <<>>
          /\ (c_ret # <<>> /\ c_ret[1].ok) =>
                /\ AllValidated
                /\ out_file # <<>>
                /\ c_ret[1].metadata.local_files_validated = Len(c_input.local_files)
                /\ c_ret[1].metadata.remote_urls_validated = Len(c_input.remote_urls))
    /\ [][out_file' # out_file => (c_pc = "compile" /\ AllValidated)]_vars

\* C32 witness: a call over two local files and a remote URL returned Ok with
\* the output written.
C32_Witness ==
    /\ c_pc = "done"
    /\ c_ret # <<>>
    /\ c_ret[1].ok
    /\ Len(c_input.local_files) = 2
    /\ c_input.local_files[1] # c_input.local_files[2]
    /\ Len(c_input.remote_urls) = 1
    /\ Len(c_log) = 3
    /\ out_file # <<>>

====
